---- MODULE Spec2Model ----
(***************************************************************************)
(* A model of grr's device layer (src/src/image.rs, src/src/buffer.rs,     *)
(* src/src/error.rs) on top of an OpenGL context.                          *)
(*                                                                         *)
(* The context is the state: its error flag, its texture and buffer        *)
(* objects.  The caller holds the handles the device returned (Image,      *)
(* ImageView, Buffer).  Every device operation is one action; the context  *)
(* calls it issues are recorded, in order and with their arguments, in     *)
(* `calls`, and what it returned (or that it panicked) in `op`; the caller  *)
(* then takes the result (Return) before its next call.                    *)
(*                                                                         *)
(* Bit fields of the context (storage flags, access flags) are sets of     *)
(* bit names: `|` is \cup and `&` is \cap.  MemoryFlags / MappingFlags are *)
(* the u8 values of the bitflags! declarations.                            *)
(***************************************************************************)
EXTENDS Integers, Sequences, FiniteSets, TLC

VARIABLES
    gl_error,     \* the context's error flag (read and cleared by GetError)
    textures,     \* texture objects of the context: name -> object or NoObject
    gl_buffers,   \* buffer objects of the context: name -> object or NoObject
    images,       \* Image handles the caller holds
    views,        \* ImageView handles the caller holds
    buffers,      \* Buffer handles the caller holds
    buffer_memory,\* history: the MemoryFlags each buffer object was created with
    gl_vertex_arrays, \* vertex array objects of the context: name -> object
    vertex_arrays,\* VertexArray handles the caller holds
    gl_state,     \* pipeline state of the context (toggles, functions, masks)
    gl_pixel_unpack_buffer, \* the buffer bound to PIXEL_UNPACK_BUFFER (0: none)
    gl_framebuffers,  \* framebuffer objects of the context: name -> object
    gl_renderbuffers, \* renderbuffer objects of the context: name -> object
    gl_samplers,  \* sampler objects of the context: name -> object
    framebuffers, \* Framebuffer handles the caller holds
    renderbuffers,\* Renderbuffer handles the caller holds
    samplers,     \* Sampler handles the caller holds
    gl_shaders,   \* shader objects of the context: name -> object
    gl_programs,  \* program objects of the context: name -> object
    shaders,      \* Shader handles the caller holds
    pipelines,    \* Pipeline handles the caller holds
    gl_uniforms,  \* uniform values of the program objects: name -> location -> value
    gl_use_program, \* the program in use (0: none)
    calls,        \* context calls issued by the last operation
    op            \* the last operation: its name, arguments, outcome and value

\* The variables by subsystem: images and buffers, vertex arrays, pipeline
\* state, render targets and samplers, shaders and pipelines.
resource_vars == <<gl_error, textures, gl_buffers, images, views, buffers, buffer_memory>>
vertex_vars == <<gl_vertex_arrays, vertex_arrays>>
state_vars == <<gl_state, gl_pixel_unpack_buffer>>
target_vars ==
    <<gl_framebuffers, gl_renderbuffers, gl_samplers, framebuffers, renderbuffers, samplers>>
program_vars == <<gl_shaders, gl_programs, shaders, pipelines, gl_uniforms, gl_use_program>>

vars == <<resource_vars, vertex_vars, state_vars, target_vars, program_vars, calls, op>>

----------------------------------------------------------------------------
(* Bounds of the model *)

MaxExtent == 2          \* width, height and depth are 1 or MaxExtent
MaxLayers == 12         \* layer counts range over 1..MaxLayers
MaxSamples == 4         \* sample counts are 1 (not multisampled) or MaxSamples
MaxLevels == 2          \* mip level counts are 1 or MaxLevels
MaxTextures == 2        \* texture names the context hands out
MaxBuffers == 1         \* buffer names the context hands out
MaxBytes == 2           \* buffer sizes and mapped offsets range over 0..MaxBytes
MaxVertexArrays == 1    \* vertex array names the context hands out
MaxAttributes == 1      \* attributes of one vertex array
MaxLocation == 1        \* attribute locations are 0 or MaxLocation
MaxFirst == 1           \* first binding slots range over 0..MaxFirst
MaxViews == 2           \* vertex buffer views bound by one call
MaxDivisor == 1         \* instance divisors range over 0..MaxDivisor
MaxAttachments == 2     \* colour attachments of one ColorBlend
MaxMaskBit == 7         \* highest bit set in the masks that are not all ones
MaxFramebuffers == 1    \* framebuffer names the context hands out
MaxRenderbuffers == 1   \* renderbuffer names the context hands out
MaxSamplers == 1        \* sampler names the context hands out
MaxShaders == 2         \* shader names the context hands out
MaxPrograms == 1        \* program names the context hands out
MaxConstants == 1       \* uniform constants set by one call

Extents == {1, MaxExtent}
LayerCounts == 1..MaxLayers
SampleCounts == {1, MaxSamples}
LevelCounts == {1, MaxLevels}
TextureNames == 1..MaxTextures
BufferNames == 1..MaxBuffers
VertexArrayNames == 1..MaxVertexArrays
BindingSlots == 0..(MaxFirst + MaxViews - 1)
BlendSlots == 0..MaxAttachments
FramebufferNames == 1..MaxFramebuffers
RenderbufferNames == 1..MaxRenderbuffers
SamplerNames == 1..MaxSamplers
ShaderNames == 1..MaxShaders
ProgramNames == 1..MaxPrograms
UniformLocations == 0..(MaxFirst + MaxConstants - 1)

----------------------------------------------------------------------------
(* The context *)

NO_ERROR == "NO_ERROR"
OUT_OF_MEMORY == "OUT_OF_MEMORY"
NoObject == [target |-> "NONE", storage |-> "NONE"]
NoBuffer == [storage |-> "FREE", flags |-> {}]
NoVertexArray == [divisor |-> <<>>]
\* A name of the given kind the context has not handed out.
Free(kind) == [free |-> kind]

\* The uniform values of a program after linking: all zero.
NoUniforms == [location \in UniformLocations |-> <<"", <<>>>>]

\* Between two operations of the caller.
Idle == [name |-> "idle", args |-> [none |-> 0], status |-> "Ok", value |-> 0]

\* One context call, as the context sees it.
Call(fn, args) == [fn |-> fn, args |-> args]

\* The name a Create*/Gen* call hands out: an unused one.
Unused(objects) ==
    {n \in DOMAIN objects :
        objects[n] \in {NoObject, NoBuffer, NoVertexArray}
                       \cup {Free(kind) : kind \in {"framebuffer", "renderbuffer", "sampler",
                                                    "shader", "program"}}}
FreshName(objects) == CHOOSE n \in Unused(objects) : \A m \in Unused(objects) : n <= m

\* Error::get_error: reads the flag (which clears it); only OUT_OF_MEMORY is
\* an error of the device.
get_error(flag) == IF flag = OUT_OF_MEMORY THEN "OutOfMemory" ELSE "Ok"

\* The flag after a call: the context keeps the first error recorded.
Raise(flag, failed) == IF failed /\ flag = NO_ERROR THEN OUT_OF_MEMORY ELSE flag

----------------------------------------------------------------------------
(* Images: src/src/image.rs *)

ImageFormats == {"R8G8B8A8_SRGB", "D32_SFLOAT"}

D1(w, l) == [tag |-> "D1", width |-> w, height |-> 1, depth |-> 1, layers |-> l, samples |-> 1]
D2(w, h, l, s) == [tag |-> "D2", width |-> w, height |-> h, depth |-> 1, layers |-> l, samples |-> s]
D3(w, h, d) == [tag |-> "D3", width |-> w, height |-> h, depth |-> d, layers |-> 1, samples |-> 1]

ImageType ==
    {D1(w, l) : w \in Extents, l \in LayerCounts}
    \cup {D2(w, h, l, s) : w \in Extents, h \in Extents, l \in LayerCounts, s \in SampleCounts}
    \cup {D3(w, h, d) : w \in Extents, h \in Extents, d \in Extents}

ImageViewType == {"D1", "D2", "D3", "Cube", "D1Array", "D2Array", "CubeArray"}

\* ImageType::layers
Layers(ty) == IF ty.tag = "D3" THEN 1 ELSE ty.layers

\* A variant of view_ty that derives cube views from the layer count.
view_ty_cube(ty) ==
    CASE ty.tag = "D1" /\ ty.layers = 1 -> "D1"
      [] ty.tag = "D1" -> "D1Array"
      [] ty.tag = "D2" /\ ty.layers = 1 -> "D2"
      [] ty.tag = "D2" /\ ty.layers = 6 -> "Cube"
      [] ty.tag = "D2" -> "D2Array"
      [] ty.tag = "D3" -> "D3"

\* ImageType::view_ty
view_ty(ty) ==
    CASE ty.tag = "D1" /\ ty.layers = 1 -> "D1"
      [] ty.tag = "D1" -> "D1Array"
      [] ty.tag = "D2" /\ ty.layers = 1 -> "D2"
      [] ty.tag = "D2" -> "D2Array"
      [] ty.tag = "D3" -> "D3"

\* Variants of ResolveTarget with a slip in the match: the cube-map rows added,
\* the array arm of D2 lost, the two `layers: 1` arms of D2 in the wrong order.
ResolveTargetCube(ty) ==
    CASE ty.tag = "D1" /\ ty.layers = 1 -> "TEXTURE_1D"
      [] ty.tag = "D1" -> "TEXTURE_1D_ARRAY"
      [] ty.tag = "D2" /\ ty.layers = 1 /\ ty.samples = 1 -> "TEXTURE_2D"
      [] ty.tag = "D2" /\ ty.layers = 6 /\ ty.samples = 1 -> "TEXTURE_CUBE_MAP"
      [] ty.tag = "D2" /\ ty.layers % 6 = 0 /\ ty.samples = 1 -> "TEXTURE_CUBE_MAP_ARRAY"
      [] ty.tag = "D2" /\ ty.samples = 1 -> "TEXTURE_2D_ARRAY"
      [] ty.tag = "D2" /\ ty.layers = 1 -> "TEXTURE_2D_MULTISAMPLE"
      [] ty.tag = "D2" -> "TEXTURE_2D_MULTISAMPLE_ARRAY"
      [] ty.tag = "D3" -> "TEXTURE_3D"

ResolveTargetNoArray(ty) ==
    CASE ty.tag = "D1" /\ ty.layers = 1 -> "TEXTURE_1D"
      [] ty.tag = "D1" -> "TEXTURE_1D_ARRAY"
      [] ty.tag = "D2" /\ ty.samples = 1 -> "TEXTURE_2D"
      [] ty.tag = "D2" /\ ty.layers = 1 -> "TEXTURE_2D_MULTISAMPLE"
      [] ty.tag = "D2" -> "TEXTURE_2D_MULTISAMPLE_ARRAY"
      [] ty.tag = "D3" -> "TEXTURE_3D"

ResolveTargetArmOrder(ty) ==
    CASE ty.tag = "D1" /\ ty.layers = 1 -> "TEXTURE_1D"
      [] ty.tag = "D1" -> "TEXTURE_1D_ARRAY"
      [] ty.tag = "D2" /\ ty.layers = 1 -> "TEXTURE_2D_MULTISAMPLE"
      [] ty.tag = "D2" /\ ty.samples = 1 -> "TEXTURE_2D_ARRAY"
      [] ty.tag = "D2" -> "TEXTURE_2D_MULTISAMPLE_ARRAY"
      [] ty.tag = "D3" -> "TEXTURE_3D"

\* The first match of create_image: the target the texture is created with.
ResolveTarget(ty) ==
    CASE ty.tag = "D1" /\ ty.layers = 1 -> "TEXTURE_1D"
      [] ty.tag = "D1" -> "TEXTURE_1D_ARRAY"
      [] ty.tag = "D2" /\ ty.layers = 1 /\ ty.samples = 1 -> "TEXTURE_2D"
      [] ty.tag = "D2" /\ ty.samples = 1 -> "TEXTURE_2D_ARRAY"
      [] ty.tag = "D2" /\ ty.layers = 1 -> "TEXTURE_2D_MULTISAMPLE"
      [] ty.tag = "D2" -> "TEXTURE_2D_MULTISAMPLE_ARRAY"
      [] ty.tag = "D3" -> "TEXTURE_3D"

\* The second match of create_image: the storage call, or the
\* unimplemented!() arm.
Unimplemented == Call("unimplemented!", <<>>)

\* Variants of StorageCall: layered D2 images given two-dimensional storage,
\* and a last arm that allocates instead of stopping.
StorageCallFlat(ty, image, levels, format) ==
    CASE ty.tag = "D1" /\ ty.layers = 1 ->
            Call("TextureStorage1D", <<image, levels, format, ty.width>>)
      [] ty.tag = "D1" ->
            Call("TextureStorage2D", <<image, levels, format, ty.width, ty.layers>>)
      [] ty.tag = "D2" /\ ty.samples = 1 ->
            Call("TextureStorage2D", <<image, levels, format, ty.width, ty.height>>)
      [] ty.tag = "D3" ->
            Call("TextureStorage3D", <<image, levels, format, ty.width, ty.height, ty.depth>>)
      [] OTHER -> Unimplemented

StorageCallFallback(ty, image, levels, format) ==
    CASE ty.tag = "D1" /\ ty.layers = 1 ->
            Call("TextureStorage1D", <<image, levels, format, ty.width>>)
      [] ty.tag = "D1" ->
            Call("TextureStorage2D", <<image, levels, format, ty.width, ty.layers>>)
      [] ty.tag = "D2" /\ ty.layers = 1 /\ ty.samples = 1 ->
            Call("TextureStorage2D", <<image, levels, format, ty.width, ty.height>>)
      [] ty.tag = "D2" ->
            Call("TextureStorage3D", <<image, levels, format, ty.width, ty.height, ty.layers>>)
      [] ty.tag = "D3" ->
            Call("TextureStorage3D", <<image, levels, format, ty.width, ty.height, ty.depth>>)

StorageCall(ty, image, levels, format) ==
    CASE ty.tag = "D1" /\ ty.layers = 1 ->
            Call("TextureStorage1D", <<image, levels, format, ty.width>>)
      [] ty.tag = "D1" ->
            Call("TextureStorage2D", <<image, levels, format, ty.width, ty.layers>>)
      [] ty.tag = "D2" /\ ty.layers = 1 /\ ty.samples = 1 ->
            Call("TextureStorage2D", <<image, levels, format, ty.width, ty.height>>)
      [] ty.tag = "D2" /\ ty.samples = 1 ->
            Call("TextureStorage3D", <<image, levels, format, ty.width, ty.height, ty.layers>>)
      [] ty.tag = "D3" ->
            Call("TextureStorage3D", <<image, levels, format, ty.width, ty.height, ty.depth>>)
      [] OTHER -> Unimplemented

\* Device::create_image, run on the context (tex, flag).  `fault` names the
\* context call that runs out of memory, if any.
create_image(tex, flag, ty, format, levels, fault) ==
    LET target == ResolveTarget(ty)
        image == FreshName(tex)
        c1 == Call("CreateTextures", <<target, image>>)
        tex1 == IF fault = "create" THEN tex
                ELSE [tex EXCEPT ![image] = [target |-> target, storage |-> "NONE"]]
        flag1 == Raise(flag, fault = "create")
        sc == StorageCall(ty, image, levels, format)
        tex2 == IF fault = "storage" THEN tex1
                ELSE [tex1 EXCEPT ![image].storage = sc.fn]
        flag2 == Raise(NO_ERROR, fault = "storage")
    IN  IF get_error(flag1) # "Ok"
        THEN [textures |-> tex1, gl_error |-> NO_ERROR, calls |-> <<c1>>,
              status |-> get_error(flag1), image |-> [raw |-> 0, target |-> target]]
        ELSE IF sc = Unimplemented
        THEN [textures |-> tex1, gl_error |-> NO_ERROR, calls |-> <<c1>>,
              status |-> "Panic", image |-> [raw |-> 0, target |-> target]]
        ELSE IF get_error(flag2) # "Ok"
        THEN [textures |-> tex2, gl_error |-> NO_ERROR, calls |-> <<c1, sc>>,
              status |-> get_error(flag2), image |-> [raw |-> 0, target |-> target]]
        ELSE [textures |-> tex2, gl_error |-> NO_ERROR, calls |-> <<c1, sc>>,
              status |-> "Ok", image |-> [raw |-> image, target |-> target]]

\* The match of create_image_view without its two guarded arms: the target
\* follows the view type alone.
ViewTargetByType(imageTarget, ty) ==
    CASE ty = "D1" -> "TEXTURE_1D"
      [] ty = "D2" -> "TEXTURE_2D"
      [] ty = "D3" -> "TEXTURE_3D"
      [] ty = "Cube" -> "TEXTURE_CUBE_MAP"
      [] ty = "D1Array" -> "TEXTURE_1D_ARRAY"
      [] ty = "D2Array" -> "TEXTURE_2D_ARRAY"
      [] ty = "CubeArray" -> "TEXTURE_CUBE_MAP_ARRAY"

\* The match of create_image_view: the target of the view.
ViewTarget(imageTarget, ty) ==
    CASE ty = "D1" -> "TEXTURE_1D"
      [] ty = "D2" /\ imageTarget = "TEXTURE_2D_MULTISAMPLE" -> "TEXTURE_2D_MULTISAMPLE"
      [] ty = "D2" -> "TEXTURE_2D"
      [] ty = "D3" -> "TEXTURE_3D"
      [] ty = "Cube" -> "TEXTURE_CUBE_MAP"
      [] ty = "D1Array" -> "TEXTURE_1D_ARRAY"
      [] ty = "D2Array" /\ imageTarget = "TEXTURE_2D_MULTISAMPLE_ARRAY" ->
            "TEXTURE_2D_MULTISAMPLE_ARRAY"
      [] ty = "D2Array" -> "TEXTURE_2D_ARRAY"
      [] ty = "CubeArray" -> "TEXTURE_CUBE_MAP_ARRAY"

\* A SubresourceRange: two half-open ranges, each <<start, end>>.
SubresourceRange(levels, layers) == [levels |-> levels, layers |-> layers]

\* Device::create_image_view, run on the context (tex, flag).
create_image_view(tex, flag, image, ty, format, range, fault) ==
    LET target == ViewTarget(image.target, ty)
        view == FreshName(tex)
        c1 == Call("GenTextures", <<view>>)
        tex1 == IF fault = "gen" THEN tex
                ELSE [tex EXCEPT ![view] = [target |-> "NONE", storage |-> "GenTextures"]]
        flag1 == Raise(flag, fault = "gen")
        c2 == Call("TextureView",
                   <<view, target, image.raw, format,
                     range.levels[1], range.levels[2] - range.levels[1],
                     range.layers[1], range.layers[2] - range.layers[1]>>)
        tex2 == IF fault = "view" THEN tex1
                ELSE [tex1 EXCEPT ![view] = [target |-> target, storage |-> "TextureView"]]
        flag2 == Raise(NO_ERROR, fault = "view")
    IN  IF get_error(flag1) # "Ok"
        THEN [textures |-> tex1, gl_error |-> NO_ERROR, calls |-> <<c1>>,
              status |-> get_error(flag1), view |-> 0]
        ELSE IF get_error(flag2) # "Ok"
        THEN [textures |-> tex2, gl_error |-> NO_ERROR, calls |-> <<c1, c2>>,
              status |-> get_error(flag2), view |-> 0]
        ELSE [textures |-> tex2, gl_error |-> NO_ERROR, calls |-> <<c1, c2>>,
              status |-> "Ok", view |-> view]

\* Device::create_image_and_view: create_image, then (the ? operator) the
\* default view of the whole image.
create_image_and_view(tex, flag, ty, format, levels, fault) ==
    LET i == create_image(tex, flag, ty, format, levels, fault)
        v == create_image_view(i.textures, i.gl_error, i.image, view_ty(ty), format,
                               SubresourceRange(<<0, levels>>, <<0, Layers(ty)>>), fault)
    IN  IF i.status # "Ok"
        THEN [textures |-> i.textures, gl_error |-> i.gl_error, calls |-> i.calls,
              status |-> i.status, image |-> i.image, view |-> 0]
        ELSE [textures |-> v.textures, gl_error |-> v.gl_error,
              calls |-> i.calls \o v.calls,
              status |-> v.status, image |-> i.image, view |-> v.view]

----------------------------------------------------------------------------
(* The operations on images, as actions *)

ImageFaults == {"none", "create", "storage"}
ViewFaults == {"none", "gen", "view"}
ViewLevelRanges == {<<0, n>> : n \in LevelCounts}
ViewLayerRanges == {<<0, 1>>, <<1, 2>>, <<0, 6>>}

CreateImage ==
    /\ op = Idle
    /\ Unused(textures) # {}
    /\ \E ty \in ImageType, format \in ImageFormats, levels \in LevelCounts,
          fault \in ImageFaults :
           /\ LET r == create_image(textures, gl_error, ty, format, levels, fault)
              IN  /\ textures' = r.textures
                  /\ gl_error' = r.gl_error
                  /\ calls' = r.calls
                  /\ images' = IF r.status = "Ok" THEN images \cup {r.image} ELSE images
                  /\ op' = [name |-> "create_image",
                            args |-> [ty |-> ty, format |-> format, levels |-> levels],
                            status |-> r.status, value |-> r.image]
           /\ UNCHANGED <<gl_buffers, views, buffers, buffer_memory, vertex_vars, state_vars, target_vars, program_vars>>

CreateImageView ==
    /\ op = Idle
    /\ Unused(textures) # {}
    /\ \E image \in images, ty \in ImageViewType, format \in ImageFormats,
          levels \in ViewLevelRanges, layers \in ViewLayerRanges, fault \in ViewFaults :
           /\ LET range == SubresourceRange(levels, layers)
                  r == create_image_view(textures, gl_error, image, ty, format, range, fault)
              IN  /\ textures' = r.textures
                  /\ gl_error' = r.gl_error
                  /\ calls' = r.calls
                  /\ views' = IF r.status = "Ok" THEN views \cup {r.view} ELSE views
                  /\ op' = [name |-> "create_image_view",
                            args |-> [image |-> image, ty |-> ty, format |-> format,
                                      range |-> range],
                            status |-> r.status, value |-> r.view]
           /\ UNCHANGED <<gl_buffers, images, buffers, buffer_memory, vertex_vars, state_vars, target_vars, program_vars>>

CreateImageAndView ==
    /\ op = Idle
    /\ Cardinality(Unused(textures)) >= 2
    /\ \E ty \in ImageType, format \in ImageFormats, levels \in LevelCounts,
          fault \in ImageFaults \cup ViewFaults :
           /\ LET r == create_image_and_view(textures, gl_error, ty, format, levels, fault)
              IN  /\ textures' = r.textures
                  /\ gl_error' = r.gl_error
                  /\ calls' = r.calls
                  /\ images' = IF r.status = "Ok" THEN images \cup {r.image} ELSE images
                  /\ views' = IF r.status = "Ok" THEN views \cup {r.view} ELSE views
                  /\ op' = [name |-> "create_image_and_view",
                            args |-> [ty |-> ty, format |-> format, levels |-> levels],
                            status |-> r.status,
                            value |-> [image |-> r.image, view |-> r.view]]
           /\ UNCHANGED <<gl_buffers, buffers, buffer_memory, vertex_vars, state_vars, target_vars, program_vars>>

\* Device::delete_image (delete_images of one image); the caller gives the
\* handle up.
DeleteImage ==
    /\ op = Idle
    /\ \E image \in images :
           /\ textures' = [textures EXCEPT ![image.raw] = NoObject]
           /\ images' = images \ {image}
           /\ calls' = <<Call("DeleteTextures", <<image.raw>>)>>
           /\ op' = [name |-> "delete_image", args |-> [image |-> image],
                     status |-> "Ok", value |-> 0]
           /\ UNCHANGED <<gl_error, gl_buffers, views, buffers, buffer_memory, vertex_vars, state_vars, target_vars, program_vars>>

\* Device::delete_image_view
DeleteImageView ==
    /\ op = Idle
    /\ \E view \in views :
           /\ textures' = [textures EXCEPT ![view] = NoObject]
           /\ views' = views \ {view}
           /\ calls' = <<Call("DeleteTextures", <<view>>)>>
           /\ op' = [name |-> "delete_image_view", args |-> [view |-> view],
                     status |-> "Ok", value |-> 0]
           /\ UNCHANGED <<gl_error, gl_buffers, images, buffers, buffer_memory, vertex_vars, state_vars, target_vars, program_vars>>

\* Device::generate_mipmaps: one context call whose error nobody reads.
GenerateMipmaps ==
    /\ op = Idle
    /\ \E image \in images, failed \in BOOLEAN :
           /\ gl_error' = Raise(gl_error, failed)
           /\ calls' = <<Call("GenerateTextureMipmap", <<image.raw>>)>>
           /\ op' = [name |-> "generate_mipmaps", args |-> [image |-> image],
                     status |-> "Ok", value |-> 0]
           /\ UNCHANGED <<textures, gl_buffers, images, views, buffers, buffer_memory, vertex_vars, state_vars, target_vars, program_vars>>

----------------------------------------------------------------------------
(* Buffers: src/src/buffer.rs *)

\* bitflags! MemoryFlags: u8
DEVICE_LOCAL == 1
COHERENT == 2
CPU_MAP_READ == 4
CPU_MAP_WRITE == 8
DYNAMIC == 16
\* bitflags! MappingFlags: u8
UNSYNCHRONIZED == 1

MemoryFlags == 0..(DEVICE_LOCAL + COHERENT + CPU_MAP_READ + CPU_MAP_WRITE + DYNAMIC)
MappingFlags == 0..UNSYNCHRONIZED

\* bitflags' contains, for a one-bit flag.
contains(bits, flag) == (bits \div flag) % 2 = 1

\* A variant of CreationFlags that lost the `!` of the DEVICE_LOCAL test.
CreationFlagsNoNegation(memory) ==
    (IF contains(memory, DEVICE_LOCAL) THEN {"CLIENT_STORAGE_BIT"} ELSE {})
    \cup (IF contains(memory, COHERENT)
          THEN {"MAP_COHERENT_BIT", "MAP_PERSISTENT_BIT"} ELSE {})
    \cup (IF contains(memory, CPU_MAP_READ)
          THEN {"MAP_READ_BIT", "MAP_PERSISTENT_BIT"} ELSE {})
    \cup (IF contains(memory, CPU_MAP_WRITE)
          THEN {"MAP_WRITE_BIT", "MAP_PERSISTENT_BIT"} ELSE {})
    \cup (IF contains(memory, DYNAMIC) THEN {"DYNAMIC_STORAGE_BIT"} ELSE {})

\* The flags block of create_buffer_impl.
CreationFlags(memory) ==
    (IF ~contains(memory, DEVICE_LOCAL) THEN {"CLIENT_STORAGE_BIT"} ELSE {})
    \cup (IF contains(memory, COHERENT)
          THEN {"MAP_COHERENT_BIT", "MAP_PERSISTENT_BIT"} ELSE {})
    \cup (IF contains(memory, CPU_MAP_READ)
          THEN {"MAP_READ_BIT", "MAP_PERSISTENT_BIT"} ELSE {})
    \cup (IF contains(memory, CPU_MAP_WRITE)
          THEN {"MAP_WRITE_BIT", "MAP_PERSISTENT_BIT"} ELSE {})
    \cup (IF contains(memory, DYNAMIC) THEN {"DYNAMIC_STORAGE_BIT"} ELSE {})

\* Device::create_buffer_impl, run on the context (bufs, flag).
create_buffer_impl(bufs, flag, size, data_ptr, memory, fault) ==
    LET flags == CreationFlags(memory)
        buffer == FreshName(bufs)
        c1 == Call("CreateBuffers", <<buffer>>)
        bufs1 == IF fault = "create" THEN bufs
                 ELSE [bufs EXCEPT ![buffer] = [storage |-> "NONE", flags |-> {}]]
        flag1 == Raise(flag, fault = "create")
        c2 == Call("NamedBufferStorage", <<buffer, size, data_ptr, flags>>)
        bufs2 == IF fault = "storage" THEN bufs1
                 ELSE [bufs1 EXCEPT ![buffer] =
                           [storage |-> "NamedBufferStorage", flags |-> flags]]
        flag2 == Raise(NO_ERROR, fault = "storage")
    IN  IF get_error(flag1) # "Ok"
        THEN [gl_buffers |-> bufs1, gl_error |-> NO_ERROR, calls |-> <<c1>>,
              status |-> get_error(flag1), buffer |-> [raw |-> 0, flags |-> flags]]
        ELSE IF get_error(flag2) # "Ok"
        THEN [gl_buffers |-> bufs2, gl_error |-> NO_ERROR, calls |-> <<c1, c2>>,
              status |-> get_error(flag2), buffer |-> [raw |-> 0, flags |-> flags]]
        ELSE [gl_buffers |-> bufs2, gl_error |-> NO_ERROR, calls |-> <<c1, c2>>,
              status |-> "Ok", buffer |-> [raw |-> buffer, flags |-> flags]]

\* Variants of MappingAccess: one that always asks for read and write access,
\* one that forgets the mask.
MappingAccessReadWrite(buffer, mapping) ==
    (IF contains(mapping, UNSYNCHRONIZED) THEN {"MAP_UNSYNCHRONIZED_BIT"} ELSE {})
    \cup {"MAP_READ_BIT", "MAP_WRITE_BIT"}
    \cup (buffer.flags \cap {"MAP_COHERENT_BIT", "MAP_PERSISTENT_BIT"})

MappingAccessUnmasked(buffer, mapping) ==
    (IF contains(mapping, UNSYNCHRONIZED) THEN {"MAP_UNSYNCHRONIZED_BIT"} ELSE {})
    \cup buffer.flags

\* The flags computation of map_buffer.
MappingAccess(buffer, mapping) ==
    (IF contains(mapping, UNSYNCHRONIZED) THEN {"MAP_UNSYNCHRONIZED_BIT"} ELSE {})
    \cup (buffer.flags \cap {"MAP_COHERENT_BIT", "MAP_PERSISTENT_BIT",
                             "MAP_READ_BIT", "MAP_WRITE_BIT"})

----------------------------------------------------------------------------
(* The operations on buffers, as actions *)

BufferFaults == {"none", "create", "storage"}
ByteCounts == 0..MaxBytes
Strides == 0..MaxBytes
ByteRanges == {r \in ByteCounts \X ByteCounts : r[1] <= r[2]}

CreateBufferAs(name, size, data_ptr) ==
    \E memory \in MemoryFlags, fault \in BufferFaults :
        /\ LET r == create_buffer_impl(gl_buffers, gl_error, size, data_ptr, memory, fault)
           IN  /\ gl_buffers' = r.gl_buffers
               /\ gl_error' = r.gl_error
               /\ calls' = r.calls
               /\ buffers' = IF r.status = "Ok" THEN buffers \cup {r.buffer} ELSE buffers
               /\ buffer_memory' = IF r.status = "Ok"
                                   THEN [buffer_memory EXCEPT ![r.buffer.raw] = memory]
                                   ELSE buffer_memory
               /\ op' = [name |-> name, args |-> [size |-> size, memory |-> memory],
                         status |-> r.status, value |-> r.buffer]
        /\ UNCHANGED <<textures, images, views, vertex_vars, state_vars, target_vars, program_vars>>

\* Device::create_buffer
CreateBuffer ==
    /\ op = Idle
    /\ Unused(gl_buffers) # {}
    /\ \E size \in ByteCounts : CreateBufferAs("create_buffer", size, "null")

\* Device::create_buffer_from_host
CreateBufferFromHost ==
    /\ op = Idle
    /\ Unused(gl_buffers) # {}
    /\ \E len \in ByteCounts : CreateBufferAs("create_buffer_from_host", len, "data")

\* The assertion of map_buffer with the remainder left out: only the
\* division by zero aborts.
StrideDividesNonZero(len, stride) == stride # 0

\* assert_eq!(len % stride as u64, 0): the remainder by the size of a
\* zero-sized T aborts as well.
StrideDivides(len, stride) == stride # 0 /\ len % stride = 0

\* Device::map_buffer::<T>, with stride = size_of::<T>().  The mapping call's
\* error is not read: a failure stays pending in the context.
MapBuffer ==
    /\ op = Idle
    /\ \E buffer \in buffers, range \in ByteRanges, mapping \in MappingFlags,
          stride \in Strides, failed \in BOOLEAN :
           LET len == range[2] - range[1]
               flags == MappingAccess(buffer, mapping)
               args == [buffer |-> buffer, range |-> range, mapping |-> mapping,
                        stride |-> stride]
           IN  /\ IF ~StrideDivides(len, stride)
                  THEN /\ calls' = <<>>
                       /\ op' = [name |-> "map_buffer", args |-> args,
                                 status |-> "Panic", value |-> 0]
                       /\ UNCHANGED gl_error
                  ELSE /\ calls' = <<Call("MapNamedBufferRange",
                                          <<buffer.raw, range[1], len, flags>>)>>
                       /\ gl_error' = Raise(gl_error, failed)
                       /\ op' = [name |-> "map_buffer", args |-> args,
                                 status |-> "Ok", value |-> len \div stride]
               /\ UNCHANGED <<textures, gl_buffers, images, views, buffers, buffer_memory, vertex_vars, state_vars, target_vars, program_vars>>

\* Device::unmap_buffer
UnmapBuffer ==
    /\ op = Idle
    /\ \E buffer \in buffers :
           /\ calls' = <<Call("UnmapNamedBuffer", <<buffer.raw>>)>>
           /\ op' = [name |-> "unmap_buffer", args |-> [buffer |-> buffer],
                     status |-> "Ok", value |-> 0]
           /\ UNCHANGED <<gl_error, textures, gl_buffers, images, views, buffers, buffer_memory, vertex_vars, state_vars, target_vars, program_vars>>

\* Device::delete_buffer (delete_buffers of one buffer)
DeleteBuffer ==
    /\ op = Idle
    /\ \E buffer \in buffers :
           /\ gl_buffers' = [gl_buffers EXCEPT ![buffer.raw] = NoBuffer]
           /\ buffers' = buffers \ {buffer}
           /\ buffer_memory' = [buffer_memory EXCEPT ![buffer.raw] = 0]
           /\ calls' = <<Call("DeleteBuffers", <<buffer.raw>>)>>
           /\ op' = [name |-> "delete_buffer", args |-> [buffer |-> buffer],
                     status |-> "Ok", value |-> 0]
           /\ UNCHANGED <<gl_error, textures, images, views, vertex_vars, state_vars, target_vars, program_vars>>

----------------------------------------------------------------------------
(* Vertex arrays: src/src/vertex.rs *)

VertexFormat == {
    "X8Int", "X8Uint", "X8Unorm", "X8Inorm", "X8Uscaled", "X8Iscaled",
    "Xy8Int", "Xy8Uint", "Xy8Unorm", "Xy8Inorm", "Xy8Uscaled", "Xy8Iscaled",
    "Xyz8Int", "Xyz8Uint", "Xyz8Unorm", "Xyz8Inorm", "Xyz8Uscaled",
    "Xyz8Iscaled", "Xyzw8Int", "Xyzw8Uint", "Xyzw8Unorm", "Xyzw8Inorm",
    "Xyzw8Uscaled", "Xyzw8Iscaled", "X16Int", "X16Uint", "X16Float",
    "X16Unorm", "X16Inorm", "X16Uscaled", "X16Iscaled", "Xy16Int",
    "Xy16Uint", "Xy16Float", "Xy16Unorm", "Xy16Inorm", "Xy16Uscaled",
    "Xy16Iscaled", "Xyz16Int", "Xyz16Uint", "Xyz16Float", "Xyz16Unorm",
    "Xyz16Inorm", "Xyz16Uscaled", "Xyz16Iscaled", "Xyzw16Int", "Xyzw16Uint",
    "Xyzw16Float", "Xyzw16Unorm", "Xyzw16Inorm", "Xyzw16Uscaled",
    "Xyzw16Iscaled", "X32Int", "X32Uint", "X32Float", "X32Unorm", "X32Inorm",
    "X32Uscaled", "X32Iscaled", "Xy32Int", "Xy32Uint", "Xy32Float",
    "Xy32Unorm", "Xy32Inorm", "Xy32Uscaled", "Xy32Iscaled", "Xyz32Int",
    "Xyz32Uint", "Xyz32Float", "Xyz32Unorm", "Xyz32Inorm", "Xyz32Uscaled",
    "Xyz32Iscaled", "Xyzw32Int", "Xyzw32Uint", "Xyzw32Float", "Xyzw32Unorm",
    "Xyzw32Inorm", "Xyzw32Uscaled", "Xyzw32Iscaled", "X64Float", "Xy64Float",
    "Xyz64Float", "Xyzw64Float"}
VertexBase == {"Int", "Float", "Double"}
\* One arm of the match: (base, num, ty, norm).
Arm(base, num, ty, norm) == [base |-> base, num |-> num, ty |-> ty, norm |-> norm]

\* A variant of FormatArm that takes every format for four 32-bit floats.
FormatArmXyzw32Float(format) == Arm("Float", 4, "FLOAT", FALSE)

\* The match on desc.format in create_vertex_array.
FormatArm(format) ==
    CASE format = "X8Int" -> Arm("Int", 1, "BYTE", FALSE)
      [] format = "X8Uint" -> Arm("Int", 1, "UNSIGNED_BYTE", FALSE)
      [] format = "X8Unorm" -> Arm("Float", 1, "UNSIGNED_BYTE", TRUE)
      [] format = "X8Inorm" -> Arm("Float", 1, "BYTE", TRUE)
      [] format = "X8Uscaled" -> Arm("Float", 1, "UNSIGNED_BYTE", FALSE)
      [] format = "X8Iscaled" -> Arm("Float", 1, "BYTE", FALSE)
      [] format = "Xy8Int" -> Arm("Int", 2, "BYTE", FALSE)
      [] format = "Xy8Uint" -> Arm("Int", 2, "UNSIGNED_BYTE", FALSE)
      [] format = "Xy8Unorm" -> Arm("Float", 2, "UNSIGNED_BYTE", TRUE)
      [] format = "Xy8Inorm" -> Arm("Float", 2, "BYTE", TRUE)
      [] format = "Xy8Uscaled" -> Arm("Float", 2, "UNSIGNED_BYTE", FALSE)
      [] format = "Xy8Iscaled" -> Arm("Float", 2, "BYTE", FALSE)
      [] format = "Xyz8Int" -> Arm("Int", 3, "BYTE", FALSE)
      [] format = "Xyz8Uint" -> Arm("Int", 3, "UNSIGNED_BYTE", FALSE)
      [] format = "Xyz8Unorm" -> Arm("Float", 3, "UNSIGNED_BYTE", TRUE)
      [] format = "Xyz8Inorm" -> Arm("Float", 3, "BYTE", TRUE)
      [] format = "Xyz8Uscaled" -> Arm("Float", 3, "UNSIGNED_BYTE", FALSE)
      [] format = "Xyz8Iscaled" -> Arm("Float", 3, "BYTE", FALSE)
      [] format = "Xyzw8Int" -> Arm("Int", 4, "BYTE", FALSE)
      [] format = "Xyzw8Uint" -> Arm("Int", 4, "UNSIGNED_BYTE", FALSE)
      [] format = "Xyzw8Unorm" -> Arm("Float", 4, "UNSIGNED_BYTE", TRUE)
      [] format = "Xyzw8Inorm" -> Arm("Float", 4, "BYTE", TRUE)
      [] format = "Xyzw8Uscaled" -> Arm("Float", 4, "UNSIGNED_BYTE", FALSE)
      [] format = "Xyzw8Iscaled" -> Arm("Float", 4, "BYTE", FALSE)
      [] format = "X16Int" -> Arm("Int", 1, "SHORT", FALSE)
      [] format = "X16Uint" -> Arm("Int", 1, "UNSIGNED_SHORT", FALSE)
      [] format = "X16Float" -> Arm("Float", 1, "HALF_FLOAT", FALSE)
      [] format = "X16Unorm" -> Arm("Float", 1, "UNSIGNED_SHORT", TRUE)
      [] format = "X16Inorm" -> Arm("Float", 1, "SHORT", TRUE)
      [] format = "X16Uscaled" -> Arm("Float", 1, "UNSIGNED_SHORT", FALSE)
      [] format = "X16Iscaled" -> Arm("Float", 1, "SHORT", FALSE)
      [] format = "Xy16Int" -> Arm("Int", 2, "SHORT", FALSE)
      [] format = "Xy16Uint" -> Arm("Int", 2, "UNSIGNED_SHORT", FALSE)
      [] format = "Xy16Float" -> Arm("Float", 2, "HALF_FLOAT", FALSE)
      [] format = "Xy16Unorm" -> Arm("Float", 2, "UNSIGNED_SHORT", TRUE)
      [] format = "Xy16Inorm" -> Arm("Float", 2, "SHORT", TRUE)
      [] format = "Xy16Uscaled" -> Arm("Float", 2, "UNSIGNED_SHORT", FALSE)
      [] format = "Xy16Iscaled" -> Arm("Float", 2, "SHORT", FALSE)
      [] format = "Xyz16Int" -> Arm("Int", 3, "SHORT", FALSE)
      [] format = "Xyz16Uint" -> Arm("Int", 3, "UNSIGNED_SHORT", FALSE)
      [] format = "Xyz16Float" -> Arm("Float", 3, "HALF_FLOAT", FALSE)
      [] format = "Xyz16Unorm" -> Arm("Float", 3, "UNSIGNED_SHORT", TRUE)
      [] format = "Xyz16Inorm" -> Arm("Float", 3, "SHORT", TRUE)
      [] format = "Xyz16Uscaled" -> Arm("Float", 3, "UNSIGNED_SHORT", FALSE)
      [] format = "Xyz16Iscaled" -> Arm("Float", 3, "SHORT", FALSE)
      [] format = "Xyzw16Int" -> Arm("Int", 4, "SHORT", FALSE)
      [] format = "Xyzw16Uint" -> Arm("Int", 4, "UNSIGNED_SHORT", FALSE)
      [] format = "Xyzw16Float" -> Arm("Float", 4, "HALF_FLOAT", FALSE)
      [] format = "Xyzw16Unorm" -> Arm("Float", 4, "UNSIGNED_SHORT", TRUE)
      [] format = "Xyzw16Inorm" -> Arm("Float", 4, "SHORT", TRUE)
      [] format = "Xyzw16Uscaled" -> Arm("Float", 4, "UNSIGNED_SHORT", FALSE)
      [] format = "Xyzw16Iscaled" -> Arm("Float", 4, "SHORT", FALSE)
      [] format = "X32Int" -> Arm("Int", 1, "INT", FALSE)
      [] format = "X32Uint" -> Arm("Int", 1, "UNSIGNED_INT", FALSE)
      [] format = "X32Float" -> Arm("Float", 1, "FLOAT", FALSE)
      [] format = "X32Unorm" -> Arm("Float", 1, "UNSIGNED_INT", TRUE)
      [] format = "X32Inorm" -> Arm("Float", 1, "INT", TRUE)
      [] format = "X32Uscaled" -> Arm("Float", 1, "UNSIGNED_INT", FALSE)
      [] format = "X32Iscaled" -> Arm("Float", 1, "INT", FALSE)
      [] format = "Xy32Int" -> Arm("Int", 2, "INT", FALSE)
      [] format = "Xy32Uint" -> Arm("Int", 2, "UNSIGNED_INT", FALSE)
      [] format = "Xy32Float" -> Arm("Float", 2, "FLOAT", FALSE)
      [] format = "Xy32Unorm" -> Arm("Float", 2, "UNSIGNED_INT", TRUE)
      [] format = "Xy32Inorm" -> Arm("Float", 2, "INT", TRUE)
      [] format = "Xy32Uscaled" -> Arm("Float", 2, "UNSIGNED_INT", FALSE)
      [] format = "Xy32Iscaled" -> Arm("Float", 2, "INT", FALSE)
      [] format = "Xyz32Int" -> Arm("Int", 3, "INT", FALSE)
      [] format = "Xyz32Uint" -> Arm("Int", 3, "UNSIGNED_INT", FALSE)
      [] format = "Xyz32Float" -> Arm("Float", 3, "FLOAT", FALSE)
      [] format = "Xyz32Unorm" -> Arm("Float", 3, "UNSIGNED_INT", TRUE)
      [] format = "Xyz32Inorm" -> Arm("Float", 3, "INT", TRUE)
      [] format = "Xyz32Uscaled" -> Arm("Float", 3, "UNSIGNED_INT", FALSE)
      [] format = "Xyz32Iscaled" -> Arm("Float", 3, "INT", FALSE)
      [] format = "Xyzw32Int" -> Arm("Int", 4, "INT", FALSE)
      [] format = "Xyzw32Uint" -> Arm("Int", 4, "UNSIGNED_INT", FALSE)
      [] format = "Xyzw32Float" -> Arm("Float", 4, "FLOAT", FALSE)
      [] format = "Xyzw32Unorm" -> Arm("Float", 4, "UNSIGNED_INT", TRUE)
      [] format = "Xyzw32Inorm" -> Arm("Float", 4, "INT", TRUE)
      [] format = "Xyzw32Uscaled" -> Arm("Float", 4, "UNSIGNED_INT", FALSE)
      [] format = "Xyzw32Iscaled" -> Arm("Float", 4, "INT", FALSE)
      [] format = "X64Float" -> Arm("Double", 1, "DOUBLE", FALSE)
      [] format = "Xy64Float" -> Arm("Double", 2, "DOUBLE", FALSE)
      [] format = "Xyz64Float" -> Arm("Double", 3, "DOUBLE", FALSE)
      [] format = "Xyzw64Float" -> Arm("Double", 4, "DOUBLE", FALSE)

VertexAttributeDesc(location, binding, format, offset) ==
    [location |-> location, binding |-> binding, format |-> format, offset |-> offset]

\* A variant of FormatCall that registers every attribute through the float
\* call.
FormatCallFloat(vao, desc) ==
    LET arm == FormatArm(desc.format)
    IN  Call("VertexArrayAttribFormat",
             <<vao, desc.location, arm.num, arm.ty, arm.norm, desc.offset>>)

\* The match on base in create_vertex_array: the format-configuration call of
\* one attribute.
FormatCall(vao, desc) ==
    LET arm == FormatArm(desc.format)
    IN  CASE arm.base = "Int" ->
                Call("VertexArrayAttribIFormat",
                     <<vao, desc.location, arm.num, arm.ty, desc.offset>>)
          [] arm.base = "Float" ->
                Call("VertexArrayAttribFormat",
                     <<vao, desc.location, arm.num, arm.ty, arm.norm, desc.offset>>)
          [] arm.base = "Double" ->
                Call("VertexArrayAttribLFormat",
                     <<vao, desc.location, arm.num, arm.ty, desc.offset>>)

\* The body of the loop over the attributes: the three calls of one attribute.
AttributeCalls(vao, desc) ==
    << Call("EnableVertexArrayAttrib", <<vao, desc.location>>),
       FormatCall(vao, desc),
       Call("VertexArrayAttribBinding", <<vao, desc.location, desc.binding>>) >>

\* Device::create_vertex_array, run on the context (vaos, flag).  Only the
\* error of CreateVertexArrays is read; one raised in the loop ("attrib")
\* stays pending in the context.
create_vertex_array(vaos, flag, attributes, fault) ==
    LET vao == FreshName(vaos)
        c1 == Call("CreateVertexArrays", <<vao>>)
        vaos1 == IF fault = "create" THEN vaos
                 ELSE [vaos EXCEPT ![vao] = [divisor |-> [s \in BindingSlots |-> 0]]]
        flag1 == Raise(flag, fault = "create")
        loop == [k \in 1..(3 * Len(attributes)) |->
                    AttributeCalls(vao, attributes[((k - 1) \div 3) + 1])[((k - 1) % 3) + 1]]
        flag2 == Raise(NO_ERROR, fault = "attrib" /\ attributes # <<>>)
    IN  IF get_error(flag1) # "Ok"
        THEN [vertex_arrays |-> vaos1, gl_error |-> NO_ERROR, calls |-> <<c1>>,
              status |-> get_error(flag1), vao |-> 0]
        ELSE [vertex_arrays |-> vaos1, gl_error |-> flag2, calls |-> <<c1>> \o loop,
              status |-> "Ok", vao |-> vao]

\* InputRate
Vertex == [tag |-> "Vertex", divisor |-> 0]
Instance(divisor) == [tag |-> "Instance", divisor |-> divisor]
InputRate == {Vertex} \cup {Instance(d) : d \in 0..MaxDivisor}

VertexBufferView(buffer, offset, stride, input_rate) ==
    [buffer |-> buffer, offset |-> offset, stride |-> stride, input_rate |-> input_rate]

\* A variant of Divisor that steps per instance whatever the input rate.
DivisorPerInstance(view) == 1

\* The match on view.input_rate in bind_vertex_buffers.
Divisor(view) ==
    CASE view.input_rate.tag = "Vertex" -> 0
      [] view.input_rate.tag = "Instance" -> view.input_rate.divisor

\* The calls of bind_vertex_buffers: the buffers of all views at once, then
\* one divisor per view.  (Slots and divisors stay far below 2^32, where the
\* casts into GLuint keep their value.)
BindVertexBuffersCalls(vao, first, buffer_views) ==
    << Call("VertexArrayVertexBuffers",
            <<vao, first, Len(buffer_views),
              [i \in 1..Len(buffer_views) |-> buffer_views[i].buffer.raw],
              [i \in 1..Len(buffer_views) |-> buffer_views[i].offset],
              [i \in 1..Len(buffer_views) |-> buffer_views[i].stride]>>) >>
    \o [i \in 1..Len(buffer_views) |->
            Call("VertexArrayBindingDivisor",
                 <<vao, first + (i - 1), Divisor(buffer_views[i])>>)]

\* The divisors of a vertex array after a sequence of context calls.
RECURSIVE ApplyDivisors(_, _)
ApplyDivisors(divisor, cs) ==
    IF cs = <<>> THEN divisor
    ELSE LET c == Head(cs)
         IN  ApplyDivisors(IF c.fn = "VertexArrayBindingDivisor"
                           THEN [divisor EXCEPT ![c.args[2]] = c.args[3]]
                           ELSE divisor,
                           Tail(cs))

----------------------------------------------------------------------------
(* The operations on vertex arrays, as actions *)

VertexFaults == {"none", "create", "attrib"}
Locations == {0, MaxLocation}
VertexAttributeDescs ==
    {VertexAttributeDesc(l, MaxFirst, f, MaxBytes) : l \in Locations, f \in VertexFormat}
SeqsUpTo(S, n) == UNION {[1..k -> S] : k \in 0..n}

\* The attribute lists a caller passes: each location described once, in
\* increasing order.
AttributeLists ==
    {a \in SeqsUpTo(VertexAttributeDescs, MaxAttributes) :
        \A i \in 1..Len(a), j \in 1..Len(a) : i < j => a[i].location < a[j].location}

\* Device::create_vertex_array
CreateVertexArray ==
    /\ op = Idle
    /\ Unused(gl_vertex_arrays) # {}
    /\ \E attributes \in AttributeLists, fault \in VertexFaults :
           /\ LET r == create_vertex_array(gl_vertex_arrays, gl_error, attributes, fault)
              IN  /\ gl_vertex_arrays' = r.vertex_arrays
                  /\ gl_error' = r.gl_error
                  /\ calls' = r.calls
                  /\ vertex_arrays' = IF r.status = "Ok"
                                      THEN vertex_arrays \cup {r.vao} ELSE vertex_arrays
                  /\ op' = [name |-> "create_vertex_array",
                            args |-> [attributes |-> attributes],
                            status |-> r.status, value |-> r.vao]
           /\ UNCHANGED <<textures, gl_buffers, images, views, buffers, buffer_memory,
                          state_vars, target_vars, program_vars>>

\* Device::delete_vertex_array (delete_vertex_arrays of one vertex array)
DeleteVertexArray ==
    /\ op = Idle
    /\ \E vao \in vertex_arrays :
           /\ gl_vertex_arrays' = [gl_vertex_arrays EXCEPT ![vao] = NoVertexArray]
           /\ vertex_arrays' = vertex_arrays \ {vao}
           /\ calls' = <<Call("DeleteVertexArrays", <<vao>>)>>
           /\ op' = [name |-> "delete_vertex_array", args |-> [vao |-> vao],
                     status |-> "Ok", value |-> 0]
           /\ UNCHANGED <<resource_vars, state_vars, target_vars, program_vars>>

\* Device::bind_vertex_buffers
BindVertexBuffers ==
    /\ op = Idle
    /\ \E vao \in vertex_arrays, first \in 0..MaxFirst :
       \E buffer_views \in SeqsUpTo({VertexBufferView(b, 0, MaxBytes, r) :
                                  b \in buffers, r \in InputRate}, MaxViews) :
           LET cs == BindVertexBuffersCalls(vao, first, buffer_views)
           IN  /\ calls' = cs
               /\ gl_vertex_arrays' =
                      [gl_vertex_arrays EXCEPT ![vao].divisor =
                           ApplyDivisors(gl_vertex_arrays[vao].divisor, cs)]
               /\ op' = [name |-> "bind_vertex_buffers",
                         args |-> [vao |-> vao, first |-> first, views |-> buffer_views],
                         status |-> "Ok", value |-> 0]
               /\ UNCHANGED <<resource_vars, vertex_arrays, state_vars, target_vars, program_vars>>

----------------------------------------------------------------------------
(* Pipeline state objects: src/src/pipeline.rs *)

\* A u32 is the set of its one bits, a u64 likewise.
Bits32 == 0..31
Bits64 == 0..63
Not32(bits) == Bits32 \ bits
Low32(bits) == bits \cap Bits32
High32(bits) == {b - 32 : b \in bits \ Bits32}

\* Option<T>
None == <<>>
Some(x) == <<x>>

\* The enumerations, each with the context's value of every enumerator (the
\* value `as _` gives).
GLCompare ==
    [Less |-> "LESS", LessEqual |-> "LEQUAL", Greater |-> "GREATER",
     GreaterEqual |-> "GEQUAL", Equal |-> "EQUAL", NotEqual |-> "NOTEQUAL",
     Always |-> "ALWAYS", Never |-> "NEVER"]
Compare == DOMAIN GLCompare

GLPolygonMode == [Point |-> "POINT", Line |-> "LINE", Fill |-> "FILL"]
PolygonMode == DOMAIN GLPolygonMode

GLCullMode == [Front |-> "FRONT", Back |-> "BACK", FrontBack |-> "FRONT_AND_BACK"]
CullMode == DOMAIN GLCullMode

GLFrontFace == [CounterClockwise |-> "CCW", Clockwise |-> "CW"]
FrontFace == DOMAIN GLFrontFace

GLBlendFactor ==
    [Zero |-> "ZERO", One |-> "ONE", SrcColor |-> "SRC_COLOR",
     OneMinusSrcColor |-> "ONE_MINUS_SRC_COLOR", DstColor |-> "DST_COLOR",
     OneMinusDstColor |-> "ONE_MINUS_DST_COLOR", SrcAlpha |-> "SRC_ALPHA",
     OneMinusSrcAlpha |-> "ONE_MINUS_SRC_ALPHA", DstAlpha |-> "DST_ALPHA",
     OneMinusDstAlpha |-> "ONE_MINUS_DST_ALPHA", ConstantColor |-> "CONSTANT_COLOR",
     OneMinusConstantColor |-> "ONE_MINUS_CONSTANT_COLOR",
     ConstantAlpha |-> "CONSTANT_ALPHA",
     OneMinusConstantAlpha |-> "ONE_MINUS_CONSTANT_ALPHA",
     SrcAlphaSaturate |-> "SRC_ALPHA_SATURATE", Src1Color |-> "SRC1_COLOR",
     OneMinusSrc1Color |-> "ONE_MINUS_SRC1_COLOR", Src1Alpha |-> "SRC1_ALPHA",
     OneMinusSrc1Alpha |-> "ONE_MINUS_SRC1_ALPHA"]
BlendFactor == DOMAIN GLBlendFactor

GLBlendOp ==
    [Add |-> "FUNC_ADD", Substract |-> "FUNC_SUBTRACT",
     ReverseSubstract |-> "FUNC_REVERSE_SUBTRACT", Min |-> "MIN", Max |-> "MAX"]
BlendOp == DOMAIN GLBlendOp

GLStencilOp ==
    [Keep |-> "KEEP", Zero |-> "ZERO", Replace |-> "REPLACE",
     IncrementClamp |-> "INCR", DecrementClamp |-> "DECR", Invert |-> "INVERT",
     IncrementWrap |-> "INCR_WRAP", DecrementWrap |-> "DECR_WRAP"]
StencilOp == DOMAIN GLStencilOp

BlendChannel(src_factor, dst_factor, blend_op) ==
    [src_factor |-> src_factor, dst_factor |-> dst_factor, blend_op |-> blend_op]

ColorBlendAttachment(blend_enable, color, alpha) ==
    [blend_enable |-> blend_enable, color |-> color, alpha |-> alpha]

StencilFace(fail, pass, depth_fail, compare_op, compare_mask, reference) ==
    [fail |-> fail, pass |-> pass, depth_fail |-> depth_fail,
     compare_op |-> compare_op, compare_mask |-> compare_mask, reference |-> reference]

\* StencilFace::KEEP
KEEP == StencilFace("Keep", "Keep", "Keep", "Always", Not32({}), 0)

\* `if on { Enable(cap) } else { Disable(cap) }`
Toggle(cap, on) == Call(IF on THEN "Enable" ELSE "Disable", <<cap>>)

RECURSIVE Flatten(_)
Flatten(seqs) == IF seqs = <<>> THEN <<>> ELSE Head(seqs) \o Flatten(Tail(seqs))

\* A variant of AttachmentCalls that writes the equation and the factors of
\* a disabled slot too.
AttachmentCallsAlways(slot, attachment) ==
    << Call(IF attachment.blend_enable THEN "Enablei" ELSE "Disablei", <<"BLEND", slot>>),
       Call("BlendEquationSeparatei",
            <<slot, GLBlendOp[attachment.color.blend_op],
              GLBlendOp[attachment.alpha.blend_op]>>),
       Call("BlendFuncSeparatei",
            <<slot, GLBlendFactor[attachment.color.src_factor],
              GLBlendFactor[attachment.color.dst_factor],
              GLBlendFactor[attachment.alpha.src_factor],
              GLBlendFactor[attachment.alpha.dst_factor]>>) >>

\* The body of the loop of bind_color_blend_state.
AttachmentCalls(slot, attachment) ==
    IF attachment.blend_enable
    THEN << Call("Enablei", <<"BLEND", slot>>),
            Call("BlendEquationSeparatei",
                 <<slot, GLBlendOp[attachment.color.blend_op],
                   GLBlendOp[attachment.alpha.blend_op]>>),
            Call("BlendFuncSeparatei",
                 <<slot, GLBlendFactor[attachment.color.src_factor],
                   GLBlendFactor[attachment.color.dst_factor],
                   GLBlendFactor[attachment.alpha.src_factor],
                   GLBlendFactor[attachment.alpha.dst_factor]>>) >>
    ELSE << Call("Disablei", <<"BLEND", slot>>) >>

\* Device::bind_color_blend_state: the context calls it issues.
bind_color_blend_state(state) ==
    Flatten([i \in 1..Len(state.attachments) |->
                AttachmentCalls(i - 1, state.attachments[i])])

\* A variant of DepthCalls that writes the mask and the function whether the
\* test is on or off.
DepthCallsAlways(state) ==
    << Toggle("DEPTH_TEST", state.depth_test),
       Call("DepthMask", <<state.depth_write>>),
       Call("DepthFunc", <<GLCompare[state.depth_compare_op]>>) >>

\* The depth group of bind_depth_stencil_state.
DepthCalls(state) ==
    IF state.depth_test
    THEN << Call("Enable", <<"DEPTH_TEST">>),
            Call("DepthMask", <<state.depth_write>>),
            Call("DepthFunc", <<GLCompare[state.depth_compare_op]>>) >>
    ELSE << Call("Disable", <<"DEPTH_TEST">>) >>

\* A variant of StencilFaceCalls that passes the operations in the order of
\* the fields of StencilFace.
StencilFaceCallsFieldOrder(face, stencil) ==
    << Call("StencilFuncSeparate",
            <<face, GLCompare[stencil.compare_op], stencil.reference,
              stencil.compare_mask>>),
       Call("StencilOpSeparate",
            <<face, GLStencilOp[stencil.fail], GLStencilOp[stencil.pass],
              GLStencilOp[stencil.depth_fail]>>) >>

\* The two calls that configure one face of the stencil test.
StencilFaceCalls(face, stencil) ==
    << Call("StencilFuncSeparate",
            <<face, GLCompare[stencil.compare_op], stencil.reference,
              stencil.compare_mask>>),
       Call("StencilOpSeparate",
            <<face, GLStencilOp[stencil.fail], GLStencilOp[stencil.depth_fail],
              GLStencilOp[stencil.pass]>>) >>

\* The stencil group of bind_depth_stencil_state.
StencilCalls(state) ==
    IF state.stencil_test
    THEN << Call("Enable", <<"STENCIL_TEST">>) >>
         \o StencilFaceCalls("FRONT", state.stencil_front)
         \o StencilFaceCalls("BACK", state.stencil_back)
    ELSE << Call("Disable", <<"STENCIL_TEST">>) >>

\* Device::bind_depth_stencil_state: the context calls it issues.
bind_depth_stencil_state(state) == DepthCalls(state) \o StencilCalls(state)

\* A variant of BiasPrimitive that always names the toggle of filled polygons.
BiasPrimitiveFill(polygon_mode) == "POLYGON_OFFSET_FILL"

\* The match on state.polygon_mode in bind_rasterization_state.
BiasPrimitive(polygon_mode) ==
    CASE polygon_mode = "Point" -> "POLYGON_OFFSET_POINT"
      [] polygon_mode = "Line" -> "POLYGON_OFFSET_LINE"
      [] polygon_mode = "Fill" -> "POLYGON_OFFSET_FILL"

\* Device::bind_rasterization_state: the context calls it issues.
bind_rasterization_state(state) ==
    << Toggle("DEPTH_CLAMP", state.depth_clamp),
       Toggle("RASTERIZER_DISCARD", state.rasterizer_discard),
       Toggle(BiasPrimitive(state.polygon_mode), state.depth_bias),
       Call("PolygonMode", <<"FRONT_AND_BACK", GLPolygonMode[state.polygon_mode]>>),
       Call("FrontFace", <<GLFrontFace[state.front_face]>>) >>
    \o (IF state.cull_mode # None
        THEN << Call("Enable", <<"CULL_FACE">>),
                Call("CullFace", <<GLCullMode[state.cull_mode[1]]>>) >>
        ELSE << Call("Disable", <<"CULL_FACE">>) >>)

\* Device::bind_multisample_state: the context calls it issues.
bind_multisample_state(state) ==
    IF state # None
    THEN LET s == state[1]
         IN  << Call("Enable", <<"MULTISAMPLE">>) >>
             \o (IF s.sample_shading
                 THEN << Call("Enable", <<"SAMPLE_SHADING">>),
                         Call("MinSampleShading", <<s.min_sample_shading>>) >>
                 ELSE << Call("Disable", <<"SAMPLE_SHADING">>) >>)
             \o << Call("SampleMaski", <<0, Low32(s.sample_mask)>>),
                   Call("SampleMaski", <<1, High32(s.sample_mask)>>),
                   Toggle("SAMPLE_ALPHA_TO_COVERAGE", s.alpha_to_coverage),
                   Toggle("SAMPLE_ALPHA_TO_ONE", s.alpha_to_one) >>
    ELSE << Call("Disable", <<"MULTISAMPLE">>) >>

\* The context's pipeline state, as far as these calls write it, with the
\* values a new context has.
InitialState ==
    [caps |-> {"MULTISAMPLE"},
     depth_mask |-> TRUE,
     depth_func |-> "LESS",
     stencil_func |-> [FRONT |-> <<"ALWAYS", 0, Bits32>>, BACK |-> <<"ALWAYS", 0, Bits32>>],
     stencil_op |-> [FRONT |-> <<"KEEP", "KEEP", "KEEP">>,
                     BACK |-> <<"KEEP", "KEEP", "KEEP">>],
     polygon_mode |-> "FILL",
     front_face |-> "CCW",
     cull_face |-> "BACK",
     min_sample_shading |-> 0,
     sample_mask |-> <<Bits32, Bits32>>,
     blend_enabled |-> {},
     blend_equation |-> [slot \in BlendSlots |-> <<"FUNC_ADD", "FUNC_ADD">>],
     blend_func |-> [slot \in BlendSlots |-> <<"ONE", "ZERO", "ONE", "ZERO">>]]

\* What one call does to the context's state.
Exec(st, c) ==
    CASE c.fn = "Enable" -> [st EXCEPT !.caps = @ \cup {c.args[1]}]
      [] c.fn = "Disable" -> [st EXCEPT !.caps = @ \ {c.args[1]}]
      [] c.fn = "Enablei" -> [st EXCEPT !.blend_enabled = @ \cup {c.args[2]}]
      [] c.fn = "Disablei" -> [st EXCEPT !.blend_enabled = @ \ {c.args[2]}]
      [] c.fn = "BlendEquationSeparatei" ->
            [st EXCEPT !.blend_equation[c.args[1]] = <<c.args[2], c.args[3]>>]
      [] c.fn = "BlendFuncSeparatei" ->
            [st EXCEPT !.blend_func[c.args[1]] =
                           <<c.args[2], c.args[3], c.args[4], c.args[5]>>]
      [] c.fn = "DepthMask" -> [st EXCEPT !.depth_mask = c.args[1]]
      [] c.fn = "DepthFunc" -> [st EXCEPT !.depth_func = c.args[1]]
      [] c.fn = "StencilFuncSeparate" ->
            [st EXCEPT !.stencil_func[c.args[1]] = <<c.args[2], c.args[3], c.args[4]>>]
      [] c.fn = "StencilOpSeparate" ->
            [st EXCEPT !.stencil_op[c.args[1]] = <<c.args[2], c.args[3], c.args[4]>>]
      [] c.fn = "PolygonMode" -> [st EXCEPT !.polygon_mode = c.args[2]]
      [] c.fn = "FrontFace" -> [st EXCEPT !.front_face = c.args[1]]
      [] c.fn = "CullFace" -> [st EXCEPT !.cull_face = c.args[1]]
      [] c.fn = "MinSampleShading" -> [st EXCEPT !.min_sample_shading = c.args[1]]
      [] c.fn = "SampleMaski" -> [st EXCEPT !.sample_mask[c.args[1] + 1] = c.args[2]]

\* The context's state after a sequence of calls, in order.
RECURSIVE Run(_, _)
Run(st, cs) == IF cs = <<>> THEN st ELSE Run(Exec(st, Head(cs)), Tail(cs))

----------------------------------------------------------------------------
(* The binds of pipeline state, as actions *)

BlendChannels ==
    {BlendChannel("One", "Zero", "Add"),
     BlendChannel("SrcAlpha", "OneMinusSrcAlpha", "ReverseSubstract")}
ColorBlendAttachments ==
    {ColorBlendAttachment(e, c, a) : e \in BOOLEAN, c \in BlendChannels, a \in BlendChannels}
ColorBlend == [attachments : SeqsUpTo(ColorBlendAttachments, MaxAttachments)]

StencilFaces ==
    {KEEP, StencilFace("Zero", "Replace", "IncrementClamp", "Equal", 0..MaxMaskBit, 1)}
DepthStencil ==
    [depth_test : BOOLEAN, depth_write : BOOLEAN, depth_compare_op : Compare,
     stencil_test : BOOLEAN, stencil_front : StencilFaces, stencil_back : StencilFaces]

Rasterization ==
    [depth_clamp : BOOLEAN, rasterizer_discard : BOOLEAN, polygon_mode : PolygonMode,
     cull_mode : {None} \cup {Some(c) : c \in CullMode}, front_face : FrontFace,
     depth_bias : BOOLEAN]

\* min_sample_shading is 0.0 or 1.0; the sample masks have a bit in each
\* half, in the low half only, or all bits.
Multisample ==
    [sample_shading : BOOLEAN, min_sample_shading : {0, 1},
     sample_mask : {{0}, {0, 32 + MaxMaskBit}, Bits64},
     alpha_to_coverage : BOOLEAN, alpha_to_one : BOOLEAN]

\* A bind: the calls go to the context, nothing comes back.
Bind(name, state, cs) ==
    /\ calls' = cs
    /\ gl_state' = Run(gl_state, cs)
    /\ op' = [name |-> name, args |-> [state |-> state], status |-> "Ok", value |-> 0]
    /\ UNCHANGED <<resource_vars, vertex_vars, target_vars, program_vars,
                   gl_pixel_unpack_buffer>>

\* Device::bind_color_blend_state
BindColorBlendState ==
    /\ op = Idle
    /\ \E state \in ColorBlend :
           Bind("bind_color_blend_state", state, bind_color_blend_state(state))

\* Device::bind_depth_stencil_state
BindDepthStencilState ==
    /\ op = Idle
    /\ \E state \in DepthStencil :
           Bind("bind_depth_stencil_state", state, bind_depth_stencil_state(state))

\* Device::bind_rasterization_state
BindRasterizationState ==
    /\ op = Idle
    /\ \E state \in Rasterization :
           Bind("bind_rasterization_state", state, bind_rasterization_state(state))

\* Device::bind_multisample_state
BindMultisampleState ==
    /\ op = Idle
    /\ \E state \in {None} \cup {Some(s) : s \in Multisample} :
           Bind("bind_multisample_state", state, bind_multisample_state(state))

----------------------------------------------------------------------------
(* Formats: src/src/format.rs *)

\* The sized formats of texture storage.
Format == {
    "R8_UNORM", "R8G8_UNORM", "R8G8B8_UNORM", "R8G8B8A8_UNORM", "R16_UNORM",
    "R16G16_UNORM", "R16G16B16_UNORM", "R16G16B16A16_UNORM", "R8_SNORM", "R8G8_SNORM",
    "R8G8B8_SNORM", "R8G8B8A8_SNORM", "R16_SNORM", "R16G16_SNORM", "R16G16B16_SNORM",
    "R16G16B16A16_SNORM", "R16_SFLOAT", "R16G16_SFLOAT", "R16G16B16_SFLOAT",
    "R16G16B16A16_SFLOAT", "R32_SFLOAT", "R32G32_SFLOAT", "R32G32B32_SFLOAT",
    "R32G32B32A32_SFLOAT", "R8_INT", "R8G8_INT", "R8G8B8_INT", "R8G8B8A8_INT",
    "R16_INT", "R16G16_INT", "R16G16B16_INT", "R16G16B16A16_INT", "R32_INT",
    "R32G32_INT", "R32G32B32_INT", "R32G32B32A32_INT", "R8_UINT", "R8G8_UINT",
    "R8G8B8_UINT", "R8G8B8A8_UINT", "R16_UINT", "R16G16_UINT", "R16G16B16_UINT",
    "R16G16B16A16_UINT", "R32_UINT", "R32G32_UINT", "R32G32B32_UINT",
    "R32G32B32A32_UINT", "R8G8B8_SRGB", "R8G8B8A8_SRGB", "D16_UNORM", "D24_UNORM",
    "D32_UNORM", "D32_SFLOAT", "S8_UINT", "D24_UNORM_S8_UINT", "D32_SFLOAT_S8_UINT"}

\* The base formats.
BaseFormat == {"R", "RG", "RGB", "RGBA", "Depth", "DepthStencil", "Stencil"}

\* Format::base_format: the match, arm by arm.
base_format(format) ==
    CASE format \in {
             "R8_UNORM", "R16_UNORM", "R8_SNORM", "R16_SNORM", "R8_INT", "R16_INT",
             "R32_INT", "R8_UINT", "R16_UINT", "R32_UINT", "R16_SFLOAT", "R32_SFLOAT"} -> "R"
      [] format \in {
             "R8G8_UNORM", "R16G16_UNORM", "R8G8_SNORM", "R16G16_SNORM", "R8G8_INT",
             "R16G16_INT", "R32G32_INT", "R8G8_UINT", "R16G16_UINT", "R32G32_UINT",
             "R16G16_SFLOAT", "R32G32_SFLOAT"} -> "RG"
      [] format \in {
             "R8G8B8_UNORM", "R16G16B16_UNORM", "R8G8B8_SNORM", "R16G16B16_SNORM",
             "R8G8B8_INT", "R16G16B16_INT", "R32G32B32_INT", "R8G8B8_UINT",
             "R16G16B16_UINT", "R32G32B32_UINT", "R16G16B16_SFLOAT", "R32G32B32_SFLOAT"} -> "RGB"
      [] format \in {
             "R8G8B8A8_UNORM", "R16G16B16A16_UNORM", "R8G8B8A8_SNORM",
             "R16G16B16A16_SNORM", "R8G8B8A8_INT", "R16G16B16A16_INT",
             "R32G32B32A32_INT", "R8G8B8A8_UINT", "R16G16B16A16_UINT",
             "R32G32B32A32_UINT", "R16G16B16A16_SFLOAT", "R32G32B32A32_SFLOAT"} -> "RGBA"
      [] format \in {
             "R8G8B8_SRGB"} -> "RGB"
      [] format \in {
             "R8G8B8A8_SRGB"} -> "RGBA"
      [] format \in {
             "D32_SFLOAT", "D16_UNORM", "D24_UNORM", "D32_UNORM"} -> "Depth"
      [] format \in {
             "S8_UINT"} -> "Stencil"
      [] format \in {
             "D32_SFLOAT_S8_UINT", "D24_UNORM_S8_UINT"} -> "DepthStencil"

\* BaseFormat::num_components counting planes of one component each.
BaseFormat_num_components_one_plane(base) ==
    CASE base = "R" -> 1
      [] base = "RG" -> 2
      [] base = "RGB" -> 3
      [] base = "RGBA" -> 4
      [] base \in {"Depth", "DepthStencil", "Stencil"} -> 1

\* BaseFormat::num_components.
BaseFormat_num_components(base) ==
    CASE base = "R" -> 1
      [] base = "RG" -> 2
      [] base = "RGB" -> 3
      [] base = "RGBA" -> 4
      [] base = "Depth" -> 1
      [] base = "DepthStencil" -> 2
      [] base = "Stencil" -> 1

\* Format::num_components.
Format_num_components(format) == BaseFormat_num_components(base_format(format))

\* A pure lookup called by the user: nothing of the context is touched.
Lookup(name, args, value) ==
    /\ op = Idle
    /\ op' = [name |-> name, args |-> args, status |-> "Ok", value |-> value]
    /\ calls' = <<>>
    /\ UNCHANGED <<resource_vars, vertex_vars, state_vars, target_vars, program_vars>>

FormatBaseFormat ==
    \E format \in Format :
        Lookup("Format::base_format", [format |-> format], base_format(format))

FormatNumComponents ==
    \E format \in Format :
        Lookup("Format::num_components", [format |-> format],
               Format_num_components(format))

BaseFormatNumComponents ==
    \E base \in BaseFormat :
        Lookup("BaseFormat::num_components", [base |-> base],
               BaseFormat_num_components(base))

----------------------------------------------------------------------------
(* Framebuffers and renderbuffers: src/src/framebuffer.rs *)

\* Device::create_framebuffer, run on the context (fbs, flag).
create_framebuffer(fbs, flag, fault) ==
    LET framebuffer == FreshName(fbs)
        c1 == Call("CreateFramebuffers", <<framebuffer>>)
        fbs1 == IF fault = "create" THEN fbs
                ELSE [fbs EXCEPT ![framebuffer] = [attachments |-> {}]]
        flag1 == Raise(flag, fault = "create")
    IN  IF get_error(flag1) # "Ok"
        THEN [framebuffers |-> fbs1, gl_error |-> NO_ERROR, calls |-> <<c1>>,
              status |-> get_error(flag1), framebuffer |-> 0]
        ELSE [framebuffers |-> fbs1, gl_error |-> NO_ERROR, calls |-> <<c1>>,
              status |-> "Ok", framebuffer |-> framebuffer]

\* The storage call of create_renderbuffer.
RenderbufferStorage(renderbuffer, format, width, height, samples) ==
    IF samples > 1
    THEN Call("NamedRenderbufferStorageMultisample",
              <<renderbuffer, samples, format, width, height>>)
    ELSE Call("NamedRenderbufferStorage", <<renderbuffer, format, width, height>>)

\* Device::create_renderbuffer, run on the context (rbs, flag).  The error
\* flag is read after CreateRenderbuffers only: a failure of the storage call
\* stays pending in the context.
create_renderbuffer(rbs, flag, format, width, height, samples, fault) ==
    LET renderbuffer == FreshName(rbs)
        c1 == Call("CreateRenderbuffers", <<renderbuffer>>)
        rbs1 == IF fault = "create" THEN rbs
                ELSE [rbs EXCEPT ![renderbuffer] = [storage |-> "NONE"]]
        flag1 == Raise(flag, fault = "create")
        c2 == RenderbufferStorage(renderbuffer, format, width, height, samples)
        rbs2 == IF fault = "storage" THEN rbs1
                ELSE [rbs1 EXCEPT ![renderbuffer] = [storage |-> c2.fn]]
        flag2 == Raise(NO_ERROR, fault = "storage")
    IN  IF get_error(flag1) # "Ok"
        THEN [renderbuffers |-> rbs1, gl_error |-> NO_ERROR, calls |-> <<c1>>,
              status |-> get_error(flag1), renderbuffer |-> 0]
        ELSE [renderbuffers |-> rbs2, gl_error |-> flag2, calls |-> <<c1, c2>>,
              status |-> "Ok", renderbuffer |-> renderbuffer]

----------------------------------------------------------------------------
(* Samplers: src/src/sampler.rs *)

GLFilter == [Nearest |-> "NEAREST", Linear |-> "LINEAR"]

GLSamplerAddress ==
    [Repeat |-> "REPEAT", MirrorRepeat |-> "MIRRORED_REPEAT", ClampEdge |-> "CLAMP_TO_EDGE",
     ClampBorder |-> "CLAMP_TO_BORDER", MirrorClampEdge |-> "MIRROR_CLAMP_TO_EDGE"]

map_min_filter(filter, mip_map) ==
    CASE filter = "Nearest" /\ mip_map = None -> "NEAREST"
      [] filter = "Nearest" /\ mip_map = Some("Nearest") -> "NEAREST_MIPMAP_NEAREST"
      [] filter = "Nearest" /\ mip_map = Some("Linear") -> "NEAREST_MIPMAP_LINEAR"
      [] filter = "Linear" /\ mip_map = None -> "LINEAR"
      [] filter = "Linear" /\ mip_map = Some("Nearest") -> "LINEAR_MIPMAP_NEAREST"
      [] filter = "Linear" /\ mip_map = Some("Linear") -> "LINEAR_MIPMAP_LINEAR"

\* SamplerDesc; the f32 fields stand as whole numbers.
SamplerDesc(min_filter, mag_filter, mip_map, address, lod_bias, lod, compare, border_color) ==
    [min_filter |-> min_filter, mag_filter |-> mag_filter, mip_map |-> mip_map,
     address |-> address, lod_bias |-> lod_bias, lod |-> lod, compare |-> compare,
     border_color |-> border_color]

\* The parameter calls of create_sampler, in order.
SamplerParameters(sampler, desc) ==
    <<Call("SamplerParameteri",
           <<sampler, "TEXTURE_MIN_FILTER", map_min_filter(desc.min_filter, desc.mip_map)>>),
      Call("SamplerParameteri", <<sampler, "TEXTURE_MAG_FILTER", GLFilter[desc.mag_filter]>>),
      Call("SamplerParameteri",
           <<sampler, "TEXTURE_WRAP_S", GLSamplerAddress[desc.address[1]]>>),
      Call("SamplerParameteri",
           <<sampler, "TEXTURE_WRAP_T", GLSamplerAddress[desc.address[2]]>>),
      Call("SamplerParameteri",
           <<sampler, "TEXTURE_WRAP_R", GLSamplerAddress[desc.address[3]]>>),
      Call("SamplerParameterf", <<sampler, "TEXTURE_LOD_BIAS", desc.lod_bias>>),
      Call("SamplerParameterf", <<sampler, "TEXTURE_MIN_LOD", desc.lod[1]>>),
      Call("SamplerParameterf", <<sampler, "TEXTURE_MAX_LOD", desc.lod[2]>>),
      Call("SamplerParameteri",
           <<sampler, "TEXTURE_COMPARE_MODE",
             IF desc.compare = None THEN "NONE" ELSE "COMPARE_REF_TO_TEXTURE">>)>>
    \o (IF desc.compare = None THEN <<>>
        ELSE <<Call("SamplerParameteri",
                    <<sampler, "TEXTURE_COMPARE_FUNC", GLCompare[desc.compare[1]]>>)>>)
    \o <<Call("SamplerParameterfv", <<sampler, "TEXTURE_BORDER_COLOR", desc.border_color>>)>>

\* Device::create_sampler, run on the context (smps, flag).  The error flag
\* is read after CreateSamplers only; with fault "parameter" the first
\* parameter call runs out of memory, sets nothing and leaves the flag.
create_sampler(smps, flag, desc, fault) ==
    LET sampler == FreshName(smps)
        c1 == Call("CreateSamplers", <<sampler>>)
        smps1 == IF fault = "create" THEN smps
                 ELSE [smps EXCEPT ![sampler] = [parameters |-> {}]]
        flag1 == Raise(flag, fault = "create")
        cs == SamplerParameters(sampler, desc)
        applied == {k \in 1..Len(cs) : ~(fault = "parameter" /\ k = 1)}
        smps2 == [smps1 EXCEPT ![sampler] =
                     [parameters |-> {<<cs[k].args[2], cs[k].args[3]>> : k \in applied}]]
        flag2 == Raise(NO_ERROR, fault = "parameter")
    IN  IF get_error(flag1) # "Ok"
        THEN [samplers |-> smps1, gl_error |-> NO_ERROR, calls |-> <<c1>>,
              status |-> get_error(flag1), sampler |-> 0]
        ELSE [samplers |-> smps2, gl_error |-> flag2, calls |-> <<c1>> \o cs,
              status |-> "Ok", sampler |-> sampler]

----------------------------------------------------------------------------
(* The creation of framebuffers, renderbuffers and samplers, as actions *)

SamplerDescs ==
    {SamplerDesc(min_filter, "Linear", mip_map, <<"Repeat", "ClampEdge", "ClampBorder">>,
                 0, <<0, MaxLevels>>, compare, <<0, 0, 0, 1>>) :
        min_filter \in DOMAIN GLFilter,
        mip_map \in {None} \cup {Some(f) : f \in DOMAIN GLFilter},
        compare \in {None, Some("LessEqual")}}

\* Device::create_framebuffer
CreateFramebuffer ==
    /\ op = Idle
    /\ Unused(gl_framebuffers) # {}
    /\ \E fault \in {"none", "create"} :
           LET r == create_framebuffer(gl_framebuffers, gl_error, fault)
           IN  /\ gl_framebuffers' = r.framebuffers
               /\ gl_error' = r.gl_error
               /\ calls' = r.calls
               /\ framebuffers' = IF r.status = "Ok"
                                  THEN framebuffers \cup {r.framebuffer} ELSE framebuffers
               /\ op' = [name |-> "create_framebuffer", args |-> [none |-> 0],
                         status |-> r.status, value |-> r.framebuffer]
    /\ UNCHANGED <<textures, gl_buffers, images, views, buffers, buffer_memory,
                   vertex_vars, state_vars, gl_renderbuffers, gl_samplers,
                   renderbuffers, samplers, program_vars>>

\* Device::create_renderbuffer
CreateRenderbuffer ==
    /\ op = Idle
    /\ Unused(gl_renderbuffers) # {}
    /\ \E format \in ImageFormats, width \in Extents, height \in Extents,
          samples \in SampleCounts, fault \in {"none", "create", "storage"} :
           LET r == create_renderbuffer(gl_renderbuffers, gl_error, format, width, height,
                                        samples, fault)
           IN  /\ gl_renderbuffers' = r.renderbuffers
               /\ gl_error' = r.gl_error
               /\ calls' = r.calls
               /\ renderbuffers' = IF r.status = "Ok"
                                   THEN renderbuffers \cup {r.renderbuffer}
                                   ELSE renderbuffers
               /\ op' = [name |-> "create_renderbuffer",
                         args |-> [format |-> format, width |-> width, height |-> height,
                                   samples |-> samples],
                         status |-> r.status, value |-> r.renderbuffer]
    /\ UNCHANGED <<textures, gl_buffers, images, views, buffers, buffer_memory,
                   vertex_vars, state_vars, gl_framebuffers, gl_samplers,
                   framebuffers, samplers, program_vars>>

\* Device::create_sampler
CreateSampler ==
    /\ op = Idle
    /\ Unused(gl_samplers) # {}
    /\ \E desc \in SamplerDescs, fault \in {"none", "create", "parameter"} :
           LET r == create_sampler(gl_samplers, gl_error, desc, fault)
           IN  /\ gl_samplers' = r.samplers
               /\ gl_error' = r.gl_error
               /\ calls' = r.calls
               /\ samplers' = IF r.status = "Ok"
                              THEN samplers \cup {r.sampler} ELSE samplers
               /\ op' = [name |-> "create_sampler", args |-> [desc |-> desc],
                         status |-> r.status, value |-> r.sampler]
    /\ UNCHANGED <<textures, gl_buffers, images, views, buffers, buffer_memory,
                   vertex_vars, state_vars, gl_framebuffers, gl_renderbuffers,
                   framebuffers, renderbuffers, program_vars>>

----------------------------------------------------------------------------
(* Shaders and pipelines: src/src/pipeline.rs *)

GLShaderStage ==
    [Vertex |-> "VERTEX_SHADER", TessellationControl |-> "TESS_CONTROL_SHADER",
     TessellationEvaluation |-> "TESS_EVALUATION_SHADER", Geometry |-> "GEOMETRY_SHADER",
     Fragment |-> "FRAGMENT_SHADER", Compute |-> "COMPUTE_SHADER",
     MeshNv |-> "MESH_SHADER_NV", TaskNv |-> "TASK_SHADER_NV"]

\* What the program writes to standard output, kept in the order of the
\* context calls around it.
Println(text) == Call("println!", <<text>>)

\* The reading of an info log: its length, then the log when there is one,
\* which is printed.
InfoLog(get_iv, get_log, object, log, title) ==
    <<Call(get_iv, <<object, "INFO_LOG_LENGTH">>)>>
    \o (IF log # "" THEN <<Call(get_log, <<object>>), Println(title)>> ELSE <<>>)

\* Device::create_shader, run on the context (shs, flag).  compiled and log
\* are what the context's compiler makes of the source.
create_shader(shs, flag, stage, source, fault, compiled, log) ==
    LET shader == FreshName(shs)
        c1 == Call("CreateShader", <<GLShaderStage[stage]>>)
        shs1 == IF fault = "create" THEN shs
                ELSE [shs EXCEPT ![shader] =
                         [stage |-> GLShaderStage[stage], source |-> "", compiled |-> FALSE,
                          info_log |-> ""]]
        flag1 == Raise(flag, fault = "create")
        shs2 == [shs1 EXCEPT ![shader] =
                    [stage |-> GLShaderStage[stage], source |-> source,
                     compiled |-> compiled, info_log |-> log]]
        cs == <<c1, Call("ShaderSource", <<shader, source>>),
                Call("CompileShader", <<shader>>),
                Call("GetShaderiv", <<shader, "COMPILE_STATUS">>)>>
              \o (IF ~compiled
                  THEN <<Println("Shader could not be compiled successfully")>> ELSE <<>>)
              \o InfoLog("GetShaderiv", "GetShaderInfoLog", shader, log, "Shader Info Log")
    IN  IF get_error(flag1) # "Ok"
        THEN [shaders |-> shs1, gl_error |-> NO_ERROR, calls |-> <<c1>>,
              status |-> get_error(flag1), shader |-> 0]
        ELSE [shaders |-> shs2, gl_error |-> NO_ERROR, calls |-> cs,
              status |-> "Ok", shader |-> shader]

GraphicsPipelineDesc(vertex_shader, tessellation_control_shader, tessellation_evaluation_shader, geometry_shader, fragment_shader, mesh_shader, task_shader) ==
    [vertex_shader |-> vertex_shader,
     tessellation_control_shader |-> tessellation_control_shader,
     tessellation_evaluation_shader |-> tessellation_evaluation_shader,
     geometry_shader |-> geometry_shader, fragment_shader |-> fragment_shader,
     mesh_shader |-> mesh_shader, task_shader |-> task_shader]

VertexPipelineDesc(vertex_shader, tessellation_control_shader, tessellation_evaluation_shader, geometry_shader, fragment_shader) ==
    [vertex_shader |-> vertex_shader,
     tessellation_control_shader |-> tessellation_control_shader,
     tessellation_evaluation_shader |-> tessellation_evaluation_shader,
     geometry_shader |-> geometry_shader, fragment_shader |-> fragment_shader]

MeshPipelineDesc(mesh_shader, task_shader, fragment_shader) ==
    [mesh_shader |-> mesh_shader, task_shader |-> task_shader,
     fragment_shader |-> fragment_shader]

\* impl From<VertexPipelineDesc> for GraphicsPipelineDesc
FromVertexPipelineDesc(desc) ==
    GraphicsPipelineDesc(Some(desc.vertex_shader), desc.tessellation_control_shader,
                         desc.tessellation_evaluation_shader, desc.geometry_shader,
                         desc.fragment_shader, None, None)

\* impl From<MeshPipelineDesc> for GraphicsPipelineDesc
FromMeshPipelineDesc(desc) ==
    GraphicsPipelineDesc(None, None, None, None, desc.fragment_shader,
                         Some(desc.mesh_shader), desc.task_shader)

\* The shaders of a descriptor in the order they are attached and detached.
StageShaders(desc) ==
    desc.vertex_shader \o desc.tessellation_control_shader
    \o desc.tessellation_evaluation_shader \o desc.geometry_shader
    \o desc.fragment_shader \o desc.mesh_shader \o desc.task_shader

\* The context's linker: a program links only from compiled shaders, and
\* then only if the linker accepts them (links).
Linked(shs, attached, links) ==
    /\ links
    /\ \A k \in 1..Len(attached) : shs[attached[k]] # Free("shader")
                                   /\ shs[attached[k]].compiled

\* The body shared by create_graphics_pipeline and create_compute_pipeline,
\* run on the context (progs, shs, flag): the program is created, the
\* shaders are attached, linked and detached, the link status and the log are
\* read and printed, and the pipeline is returned whatever the link status.
create_pipeline(progs, shs, flag, attached, fault, links, log, message) ==
    LET pipeline == FreshName(progs)
        c1 == Call("CreateProgram", <<>>)
        progs1 == IF fault = "create" THEN progs
                  ELSE [progs EXCEPT ![pipeline] =
                           [linked |-> FALSE, stages |-> <<>>, info_log |-> ""]]
        flag1 == Raise(flag, fault = "create")
        linked == Linked(shs, attached, links)
        progs2 == [progs1 EXCEPT ![pipeline] =
                      [linked |-> linked,
                       stages |-> IF linked THEN attached ELSE <<>>,
                       info_log |-> log]]
        cs == <<c1>>
              \o [k \in 1..Len(attached) |-> Call("AttachShader", <<pipeline, attached[k]>>)]
              \o <<Call("LinkProgram", <<pipeline>>)>>
              \o [k \in 1..Len(attached) |-> Call("DetachShader", <<pipeline, attached[k]>>)]
              \o <<Call("GetProgramiv", <<pipeline, "LINK_STATUS">>)>>
              \o (IF ~linked THEN <<Println(message)>> ELSE <<>>)
              \o InfoLog("GetProgramiv", "GetProgramInfoLog", pipeline, log,
                         "Pipeline Info Log")
    IN  IF get_error(flag1) # "Ok"
        THEN [programs |-> progs1, gl_error |-> NO_ERROR, calls |-> <<c1>>,
              status |-> get_error(flag1), pipeline |-> 0]
        ELSE [programs |-> progs2, gl_error |-> NO_ERROR, calls |-> cs,
              status |-> "Ok", pipeline |-> pipeline]

\* Device::create_graphics_pipeline
create_graphics_pipeline(progs, shs, flag, desc, fault, links, log) ==
    create_pipeline(progs, shs, flag, StageShaders(desc), fault, links, log,
                    "Graphics pipeline could not be linked successfully")

\* Device::create_compute_pipeline
create_compute_pipeline(progs, shs, flag, compute_shader, fault, links, log) ==
    create_pipeline(progs, shs, flag, <<compute_shader>>, fault, links, log,
                    "Compute pipeline could not be linked successfully")

----------------------------------------------------------------------------
(* The creation of shaders and pipelines, as actions *)

\* The outcomes of a creation call, the stages of the shaders created, the
\* info logs of the context.
ProgramFaults == {"none", "create"}
ShaderStages == {"Vertex", "Fragment", "Compute", "MeshNv"}
Logs == {"", "log"}

\* The descriptors the caller passes: vertex pipelines, mesh pipelines and
\* GraphicsPipelineDesc values written field by field (all its fields are
\* public), made of the shaders it holds.
PipelineDescs ==
    LET OptionalShaders == {None} \cup {Some(s) : s \in shaders}
    IN  {FromVertexPipelineDesc(VertexPipelineDesc(vs, None, None, None, fs)) :
            vs \in shaders, fs \in OptionalShaders}
        \cup {FromMeshPipelineDesc(MeshPipelineDesc(ms, ts, fs)) :
            ms \in shaders, ts \in OptionalShaders, fs \in OptionalShaders}
        \cup {GraphicsPipelineDesc(vs, None, None, gs, None, ms, None) :
            vs \in OptionalShaders, gs \in OptionalShaders, ms \in OptionalShaders}

\* Device::create_shader
CreateShader ==
    /\ op = Idle
    /\ Unused(gl_shaders) # {}
    /\ \E stage \in ShaderStages, fault \in ProgramFaults, compiled \in BOOLEAN,
          log \in Logs :
           LET r == create_shader(gl_shaders, gl_error, stage, "source", fault, compiled, log)
           IN  /\ gl_shaders' = r.shaders
               /\ gl_error' = r.gl_error
               /\ calls' = r.calls
               /\ shaders' = IF r.status = "Ok" THEN shaders \cup {r.shader} ELSE shaders
               /\ op' = [name |-> "create_shader", args |-> [stage |-> stage],
                         status |-> r.status, value |-> r.shader]
    /\ UNCHANGED <<textures, gl_buffers, images, views, buffers, buffer_memory,
                   vertex_vars, state_vars, target_vars, gl_programs, pipelines,
                   gl_uniforms, gl_use_program>>

\* A pipeline creation returns r.
CreatedPipeline(name, args, r) ==
    /\ gl_programs' = r.programs
    /\ gl_error' = r.gl_error
    /\ calls' = r.calls
    /\ pipelines' = IF r.status = "Ok" THEN pipelines \cup {r.pipeline} ELSE pipelines
    /\ gl_uniforms' = [n \in ProgramNames |->
                          IF r.programs[n] # gl_programs[n] THEN NoUniforms
                          ELSE gl_uniforms[n]]
    /\ op' = [name |-> name, args |-> args, status |-> r.status, value |-> r.pipeline]
    /\ UNCHANGED <<textures, gl_buffers, images, views, buffers, buffer_memory,
                   vertex_vars, state_vars, target_vars, gl_shaders, shaders,
                   gl_use_program>>

\* Device::create_graphics_pipeline
CreateGraphicsPipeline ==
    /\ op = Idle
    /\ Unused(gl_programs) # {}
    /\ \E desc \in PipelineDescs, fault \in ProgramFaults, links \in BOOLEAN, log \in Logs :
           CreatedPipeline("create_graphics_pipeline", [desc |-> desc],
                           create_graphics_pipeline(gl_programs, gl_shaders, gl_error, desc,
                                                    fault, links, log))

\* Device::create_compute_pipeline
CreateComputePipeline ==
    /\ op = Idle
    /\ Unused(gl_programs) # {}
    /\ \E compute_shader \in shaders, fault \in ProgramFaults, links \in BOOLEAN,
          log \in Logs :
           CreatedPipeline("create_compute_pipeline", [compute_shader |-> compute_shader],
                           create_compute_pipeline(gl_programs, gl_shaders, gl_error,
                                                   compute_shader, fault, links, log))

----------------------------------------------------------------------------
(* The use of pipelines: src/src/command.rs, src/src/pipeline.rs *)

\* Constant: a variant and its components.
Constant(tag, v) == [tag |-> tag, v |-> v]

\* The context call of each variant of Constant but the matrices.
UniformFn ==
    [U32 |-> "ProgramUniform1ui", Uvec2 |-> "ProgramUniform2ui",
     Uvec3 |-> "ProgramUniform3ui", Uvec4 |-> "ProgramUniform4ui",
     F32 |-> "ProgramUniform1f", Vec2 |-> "ProgramUniform2f",
     UVec2 |-> "ProgramUniform2ui", IVec2 |-> "ProgramUniform2i",
     Vec3 |-> "ProgramUniform3f", Vec4 |-> "ProgramUniform4f",
     I32 |-> "ProgramUniform1i", Ivec2 |-> "ProgramUniform2i",
     Ivec3 |-> "ProgramUniform3i", Ivec4 |-> "ProgramUniform4i",
     Bool |-> "ProgramUniform1i", Bvec2 |-> "ProgramUniform2i",
     Bvec3 |-> "ProgramUniform3i", Bvec4 |-> "ProgramUniform4i"]

\* The context call of the matrix variants.
UniformMatrixFn ==
    [Mat2x2 |-> "ProgramUniformMatrix2fv", Mat3x3 |-> "ProgramUniformMatrix3fv",
     Mat4x4 |-> "ProgramUniformMatrix4fv"]

\* One arm of the match of bind_uniform_constants; a bool is cast to 0 or 1.
ConstantCall(pipeline, location, constant) ==
    IF constant.tag \in DOMAIN UniformMatrixFn
    THEN Call(UniformMatrixFn[constant.tag], <<pipeline, location, 1, "FALSE", constant.v>>)
    ELSE Call(UniformFn[constant.tag],
              <<pipeline, location>>
              \o (IF constant.tag \in {"Bool", "Bvec2", "Bvec3", "Bvec4"}
                  THEN [k \in 1..Len(constant.v) |-> IF constant.v[k] THEN 1 ELSE 0]
                  ELSE constant.v))

\* bind_uniform_constants with every constant one location further.
bind_uniform_constants_next_location(pipeline, first, constants) ==
    [i \in 1..Len(constants) |-> ConstantCall(pipeline, first + i, constants[i])]

\* Device::bind_uniform_constants: constant i goes to location first + i.
bind_uniform_constants(pipeline, first, constants) ==
    [i \in 1..Len(constants) |-> ConstantCall(pipeline, first + (i - 1), constants[i])]

\* The context's ProgramUniform* on the uniform values uni of the programs
\* progs: the value of a linked program's location is replaced; on a program
\* that is not linked the call fails and nothing is set.
RECURSIVE SetUniforms(_, _, _)
SetUniforms(progs, uni, cs) ==
    IF cs = <<>> THEN uni
    ELSE LET c == Head(cs)
             program == c.args[1]
             location == c.args[2]
         IN  SetUniforms(progs,
                 IF progs[program] # Free("program") /\ progs[program].linked
                    /\ location \in UniformLocations
                 THEN [uni EXCEPT ![program][location] = <<c.fn, SubSeq(c.args, 3, Len(c.args))>>]
                 ELSE uni,
                 Tail(cs))

\* A use of the context that leaves its objects as they are.
Command(name, args, cs) ==
    /\ op = Idle
    /\ calls' = cs
    /\ op' = [name |-> name, args |-> args, status |-> "Ok", value |-> 0]

\* The constants the caller sets, one of each kind of variant.
Constants ==
    [U32 |-> Constant("U32", <<MaxBytes>>), Bool |-> Constant("Bool", <<TRUE>>),
     Mat2x2 |-> Constant("Mat2x2", <<1, 0, 0, 1>>)]

\* Device::bind_uniform_constants
BindUniformConstants ==
    /\ op = Idle
    /\ \E pipeline \in pipelines, first \in {0, MaxFirst} :
       \E tags \in SeqsUpTo(DOMAIN Constants, MaxConstants) \ {<<>>} :
           LET constants == [i \in 1..Len(tags) |-> Constants[tags[i]]]
               cs == bind_uniform_constants(pipeline, first, constants)
           IN  /\ Command("bind_uniform_constants",
                          [pipeline |-> pipeline, first |-> first, constants |-> constants],
                          cs)
               /\ gl_uniforms' = SetUniforms(gl_programs, gl_uniforms, cs)
    /\ UNCHANGED <<resource_vars, vertex_vars, state_vars, target_vars, gl_shaders,
                   gl_programs, shaders, pipelines, gl_use_program>>

\* Device::bind_pipeline
BindPipeline ==
    /\ op = Idle
    /\ \E pipeline \in pipelines :
           /\ Command("bind_pipeline", [pipeline |-> pipeline],
                      <<Call("UseProgram", <<pipeline>>)>>)
           /\ gl_use_program' = IF gl_programs[pipeline].linked THEN pipeline
                                ELSE gl_use_program
    /\ UNCHANGED <<resource_vars, vertex_vars, state_vars, target_vars, gl_shaders,
                   gl_programs, shaders, pipelines, gl_uniforms>>

\* Device::draw, with the ranges vertices = 0..count and instance = 0..1.
Draw ==
    /\ op = Idle
    /\ \E count \in ByteCounts :
           Command("draw", [vertices |-> <<0, count>>, instance |-> <<0, 1>>],
                   <<Call("DrawArraysInstancedBaseInstance",
                          <<"TRIANGLES", 0, count - 0, 1 - 0, 0>>)>>)
    /\ UNCHANGED <<resource_vars, vertex_vars, state_vars, target_vars, program_vars>>

\* Device::dispatch
Dispatch ==
    /\ op = Idle
    /\ \E x \in Extents :
           Command("dispatch", [x |-> x, y |-> 1, z |-> 1],
                   <<Call("DispatchCompute", <<x, 1, 1>>)>>)
    /\ UNCHANGED <<resource_vars, vertex_vars, state_vars, target_vars, program_vars>>

\* Device::delete_pipeline.  The context frees the program at once unless it
\* is in use; then it frees it when another program is put in use, which
\* with the handle gone the caller cannot ask for: the object stays.
DeletePipeline ==
    /\ op = Idle
    /\ \E pipeline \in pipelines :
           /\ Command("delete_pipeline", [pipeline |-> pipeline],
                      <<Call("DeleteProgram", <<pipeline>>)>>)
           /\ pipelines' = pipelines \ {pipeline}
           /\ gl_programs' = IF gl_use_program = pipeline THEN gl_programs
                             ELSE [gl_programs EXCEPT ![pipeline] = Free("program")]
           /\ gl_uniforms' = IF gl_use_program = pipeline THEN gl_uniforms
                             ELSE [gl_uniforms EXCEPT ![pipeline] = NoUniforms]
    /\ UNCHANGED <<resource_vars, vertex_vars, state_vars, target_vars, gl_shaders,
                   shaders, gl_use_program>>

----------------------------------------------------------------------------
(* Framebuffer attachments: src/src/framebuffer.rs *)

\* Attachment
AttachmentColor(slot) == [tag |-> "Color", slot |-> slot]
AttachmentDepth == [tag |-> "Depth", slot |-> 0]
AttachmentStencil == [tag |-> "Stencil", slot |-> 0]
AttachmentDepthStencil == [tag |-> "DepthStencil", slot |-> 0]

\* Attachment::target; COLOR_ATTACHMENT0 + slot is written as a pair.
Attachment_target(attachment) ==
    CASE attachment.tag = "Color" -> <<"COLOR_ATTACHMENT0", attachment.slot>>
      [] attachment.tag = "Depth" -> <<"DEPTH_ATTACHMENT", 0>>
      [] attachment.tag = "Stencil" -> <<"STENCIL_ATTACHMENT", 0>>
      [] attachment.tag = "DepthStencil" -> <<"DEPTH_STENCIL_ATTACHMENT", 0>>

\* AttachmentView
AttachmentViewImage(view) == [tag |-> "Image", name |-> view]
AttachmentViewRenderbuffer(renderbuffer) == [tag |-> "Renderbuffer", name |-> renderbuffer]

\* The attachment points of a framebuffer a target names: the combined target
\* names the depth point and the stencil point.
Points(target) ==
    IF target = <<"DEPTH_STENCIL_ATTACHMENT", 0>>
    THEN {<<"DEPTH_ATTACHMENT", 0>>, <<"STENCIL_ATTACHMENT", 0>>}
    ELSE {target}

\* The call bind_attachments issues for one pair of its list.
AttachCall(framebuffer, pair) ==
    IF pair[2].tag = "Image"
    THEN Call("NamedFramebufferTexture",
              <<framebuffer, Attachment_target(pair[1]), pair[2].name, 0>>)
    ELSE Call("NamedFramebufferRenderbuffer",
              <<framebuffer, Attachment_target(pair[1]), "RENDERBUFFER", pair[2].name>>)

\* The context's NamedFramebufferTexture / NamedFramebufferRenderbuffer on
\* the attachments of a framebuffer: the points the target names hold the
\* object, the other points keep what they hold.
Attach(bound, pair) ==
    {a \in bound : a.point \notin Points(Attachment_target(pair[1]))}
    \cup {[point |-> point, view |-> pair[2]] : point \in Points(Attachment_target(pair[1]))}

RECURSIVE AttachAll(_, _)
AttachAll(bound, attachments) ==
    IF attachments = <<>> THEN bound
    ELSE AttachAll(Attach(bound, Head(attachments)), Tail(attachments))

\* Device::bind_attachments, run on the framebuffers fbs.
bind_attachments(fbs, framebuffer, attachments) ==
    IF framebuffer = 0
    THEN [framebuffers |-> fbs, calls |-> <<>>, status |-> "Panic"]
    ELSE [framebuffers |->
              [fbs EXCEPT ![framebuffer].attachments = AttachAll(@, attachments)],
          calls |-> [i \in 1..Len(attachments) |-> AttachCall(framebuffer, attachments[i])],
          status |-> "Ok"]

\* The attachment points and the views the caller can name.
Attachments ==
    {AttachmentColor(0), AttachmentColor(1), AttachmentDepth, AttachmentStencil,
     AttachmentDepthStencil}
AttachmentViews ==
    {AttachmentViewImage(view) : view \in views}
    \cup {AttachmentViewRenderbuffer(renderbuffer) : renderbuffer \in renderbuffers}

\* Device::bind_attachments on a framebuffer the caller holds, or on
\* Framebuffer::DEFAULT.
BindAttachments ==
    /\ op = Idle
    /\ \E framebuffer \in framebuffers \cup {0} :
       \E attachments \in SeqsUpTo(Attachments \X AttachmentViews, MaxAttachments) :
           LET r == bind_attachments(gl_framebuffers, framebuffer, attachments)
           IN  /\ gl_framebuffers' = r.framebuffers
               /\ calls' = r.calls
               /\ op' = [name |-> "bind_attachments",
                         args |-> [framebuffer |-> framebuffer, attachments |-> attachments],
                         status |-> r.status, value |-> 0]
    /\ UNCHANGED <<resource_vars, vertex_vars, state_vars, gl_renderbuffers, gl_samplers,
                   framebuffers, renderbuffers, samplers, program_vars>>

----------------------------------------------------------------------------
(* Transfers to images: src/src/image.rs, src/src/transfer.rs, src/src/buffer.rs *)

\* Device::bind_pixel_unpack_buffer, Device::unbind_pixel_unpack_buffer
bind_pixel_unpack_buffer(buffer) == Call("BindBuffer", <<"PIXEL_UNPACK_BUFFER", buffer.raw>>)
unbind_pixel_unpack_buffer == Call("BindBuffer", <<"PIXEL_UNPACK_BUFFER", 0>>)

\* Device::set_pixel_unpack_params
set_pixel_unpack_params(layout) ==
    <<Call("PixelStorei", <<"UNPACK_ALIGNMENT", layout.alignment>>),
      Call("PixelStorei", <<"UNPACK_IMAGE_HEIGHT", layout.image_height>>),
      Call("PixelStorei", <<"UNPACK_ROW_LENGTH", layout.row_pitch>>)>>

\* The match of copy_to_image: the transfer call, or the unimplemented!() arm.
TextureSubImage(image, subresource, offset, extent, data_ptr, layout) ==
    CASE image.target = "TEXTURE_1D" /\ subresource.layers = <<0, 1>> ->
            Call("TextureSubImage1D",
                 <<image.raw, subresource.level, offset.x, extent.width,
                   layout.base_format, layout.format_layout, data_ptr>>)
      [] image.target = "TEXTURE_1D_ARRAY" ->
            Call("TextureSubImage2D",
                 <<image.raw, subresource.level, offset.x, subresource.layers[1],
                   extent.width, subresource.layers[2] - subresource.layers[1],
                   layout.base_format, layout.format_layout, data_ptr>>)
      [] image.target = "TEXTURE_2D" /\ subresource.layers = <<0, 1>> ->
            Call("TextureSubImage2D",
                 <<image.raw, subresource.level, offset.x, offset.y,
                   extent.width, extent.height,
                   layout.base_format, layout.format_layout, data_ptr>>)
      [] image.target = "TEXTURE_2D_ARRAY" ->
            Call("TextureSubImage3D",
                 <<image.raw, subresource.level, offset.x, offset.y, subresource.layers[1],
                   extent.width, extent.height,
                   subresource.layers[2] - subresource.layers[1],
                   layout.base_format, layout.format_layout, data_ptr>>)
      [] image.target = "TEXTURE_3D" /\ subresource.layers = <<0, 1>> ->
            Call("TextureSubImage3D",
                 <<image.raw, subresource.level, offset.x, offset.y, offset.z,
                   extent.width, extent.height, extent.depth,
                   layout.base_format, layout.format_layout, data_ptr>>)
      [] OTHER -> Unimplemented

\* Device::copy_to_image: the calls issued; nothing follows the
\* unimplemented!() arm.
copy_to_image(image, subresource, offset, extent, data_ptr, layout) ==
    LET transfer == TextureSubImage(image, subresource, offset, extent, data_ptr, layout)
    IN  set_pixel_unpack_params(layout)
        \o (IF transfer = Unimplemented THEN <<>> ELSE <<transfer>>)

\* copy_host_to_image without the unbinding of the pixel-unpack buffer.
copy_host_to_image_bound(image, subresource, offset, extent, layout) ==
    copy_to_image(image, subresource, offset, extent, "data.as_ptr()", layout)

\* Device::copy_host_to_image
copy_host_to_image(image, subresource, offset, extent, layout) ==
    <<unbind_pixel_unpack_buffer>>
    \o copy_to_image(image, subresource, offset, extent, "data.as_ptr()", layout)

\* Device::copy_buffer_to_image
copy_buffer_to_image(image, subresource, offset, extent, buffer, layout) ==
    <<bind_pixel_unpack_buffer(buffer.buffer)>>
    \o copy_to_image(image, subresource, offset, extent, buffer.offset, layout)

TransferCalls == {"TextureSubImage1D", "TextureSubImage2D", "TextureSubImage3D"}

\* The binding of PIXEL_UNPACK_BUFFER after the calls cs, from the binding
\* before them.
RECURSIVE PixelUnpackBuffer(_, _)
PixelUnpackBuffer(binding, cs) ==
    IF cs = <<>> THEN binding
    ELSE PixelUnpackBuffer(IF Head(cs).fn = "BindBuffer"
                              /\ Head(cs).args[1] = "PIXEL_UNPACK_BUFFER"
                           THEN Head(cs).args[2] ELSE binding,
                           Tail(cs))

\* The regions and the layout the caller copies with.
SubresourceLevels == [level : {0}, layers : {<<0, 1>>, <<0, MaxExtent>>}]
Offsets == [x : {0}, y : {0}, z : {0}]
TransferExtents == [width : Extents, height : {1}, depth : {1}]
SubresourceLayouts ==
    [base_format : {"RGBA"}, format_layout : {"U8"}, row_pitch : {0}, image_height : {0},
     alignment : {4}]

\* A copy to an image: the calls go to the context; the copy aborts when no
\* transfer call was issued.
CopyToImage(name, args, cs) ==
    /\ calls' = cs
    /\ gl_pixel_unpack_buffer' = PixelUnpackBuffer(gl_pixel_unpack_buffer, cs)
    /\ op' = [name |-> name, args |-> args,
              status |-> IF \E k \in 1..Len(cs) : cs[k].fn \in TransferCalls
                         THEN "Ok" ELSE "Panic",
              value |-> 0]
    /\ UNCHANGED <<resource_vars, vertex_vars, gl_state, target_vars, program_vars>>

\* Device::copy_host_to_image
CopyHostToImage ==
    /\ op = Idle
    /\ \E image \in images, subresource \in SubresourceLevels, offset \in Offsets,
          extent \in TransferExtents, layout \in SubresourceLayouts :
           CopyToImage("copy_host_to_image",
                       [image |-> image, subresource |-> subresource, offset |-> offset,
                        extent |-> extent, layout |-> layout],
                       copy_host_to_image(image, subresource, offset, extent, layout))

\* Device::copy_buffer_to_image
CopyBufferToImage ==
    /\ op = Idle
    /\ \E image \in images, subresource \in SubresourceLevels, offset \in Offsets,
          extent \in TransferExtents, layout \in SubresourceLayouts, buffer \in buffers :
           LET range == [buffer |-> buffer, offset |-> 0, size |-> MaxBytes]
           IN  CopyToImage("copy_buffer_to_image",
                           [image |-> image, subresource |-> subresource,
                            offset |-> offset, extent |-> extent, buffer |-> range,
                            layout |-> layout],
                           copy_buffer_to_image(image, subresource, offset, extent, range,
                                                layout))

----------------------------------------------------------------------------
(* Blits: src/src/command.rs *)

\* Region
Region(x, y, w, h) == [x |-> x, y |-> y, w |-> w, h |-> h]

\* Device::blit: the arguments of BlitNamedFramebuffer in the order of the
\* call (srcX0, srcY0, srcX1, srcY1, dstX0, dstY0, dstX1, dstY1).
blit(src, src_region, dst, dst_region, filter) ==
    Call("BlitNamedFramebuffer",
         <<src, dst,
           src_region.x, src_region.x, src_region.w, src_region.h,
           dst_region.x, dst_region.x, dst_region.w, dst_region.h,
           "COLOR_BUFFER_BIT", GLFilter[filter]>>)

\* The regions the caller blits.
Regions == {Region(x, y, w, h) : x \in {0, 1}, y \in {0, MaxExtent}, w \in Extents, h \in Extents}

\* Device::blit between framebuffers the caller holds and Framebuffer::DEFAULT.
Blit ==
    /\ op = Idle
    /\ \E src \in framebuffers \cup {0}, dst \in framebuffers \cup {0},
          src_region \in Regions, dst_region \in Regions, filter \in DOMAIN GLFilter :
           Command("blit",
                   [src |-> src, src_region |-> src_region, dst |-> dst,
                    dst_region |-> dst_region, filter |-> filter],
                   <<blit(src, src_region, dst, dst_region, filter)>>)
    /\ UNCHANGED <<resource_vars, vertex_vars, state_vars, target_vars, program_vars>>

----------------------------------------------------------------------------
(* Barriers: src/src/sync.rs *)

\* bitflags! Barrier: u32, each flag as the set of its bits (the bit
\* positions of the context's barrier bits; ALL_BARRIER_BITS is 0xFFFFFFFF).
Barrier ==
    [VERTEX_ATTRIBUTE_READ |-> {0}, INDEX_READ |-> {1}, UNIFORM_READ |-> {2},
     SAMPLED_IMAGE_READ |-> {3}, STORAGE_IMAGE_RW |-> {5}, INDIRECT_COMMAND_READ |-> {6},
     BUFFER_IMAGE_TRANSFER_RW |-> {7}, IMAGE_TRANSFER_RW |-> {8},
     BUFFER_TRANSFER_RW |-> {9}, FRAMEBUFFER_RW |-> {10},
     TRANSFORM_FEEDBACK_WRITE |-> {11}, ATOMIC_COUNTER_RW |-> {12},
     STORAGE_BUFFER_RW |-> {13}, INPUT_ATTACHMENT_READ |-> {31}, ALL |-> Bits32]

\* Device::memory_barrier
memory_barrier(flags) ==
    LET removed == flags \ Barrier.INPUT_ATTACHMENT_READ
    IN  (IF Barrier.INPUT_ATTACHMENT_READ \subseteq flags
         THEN <<Call("TextureBarrier", <<>>)>> ELSE <<>>)
        \o (IF removed = {} THEN <<>> ELSE <<Call("MemoryBarrier", <<removed>>)>>)

\* The flags the caller combines with `|`.
BarrierFlags ==
    {UNION {Barrier[name] : name \in names} :
         names \in SUBSET {"VERTEX_ATTRIBUTE_READ", "UNIFORM_READ", "SAMPLED_IMAGE_READ",
                           "BUFFER_TRANSFER_RW", "FRAMEBUFFER_RW", "STORAGE_BUFFER_RW",
                           "INPUT_ATTACHMENT_READ", "ALL"}}

\* Device::memory_barrier
MemoryBarrier ==
    /\ op = Idle
    /\ \E flags \in BarrierFlags :
           Command("memory_barrier", [flags |-> flags], memory_barrier(flags))
    /\ UNCHANGED <<resource_vars, vertex_vars, state_vars, target_vars, program_vars>>

----------------------------------------------------------------------------
(* The caller *)

\* The caller takes what the operation returned and is ready for its next
\* call.  (A panic unwinds to the caller; the context stays as it is.)
Return ==
    /\ op # Idle
    /\ op' = Idle
    /\ calls' = <<>>
    /\ UNCHANGED <<gl_error, textures, gl_buffers, images, views, buffers, buffer_memory, vertex_vars, state_vars, target_vars, program_vars>>

----------------------------------------------------------------------------

Init ==
    /\ gl_error = NO_ERROR
    /\ textures = [n \in TextureNames |-> NoObject]
    /\ gl_buffers = [n \in BufferNames |-> NoBuffer]
    /\ images = {}
    /\ views = {}
    /\ buffers = {}
    /\ buffer_memory = [n \in BufferNames |-> 0]
    /\ gl_vertex_arrays = [n \in VertexArrayNames |-> NoVertexArray]
    /\ vertex_arrays = {}
    /\ gl_state = InitialState
    /\ gl_pixel_unpack_buffer = 0
    /\ gl_framebuffers = [n \in FramebufferNames |-> Free("framebuffer")]
    /\ gl_renderbuffers = [n \in RenderbufferNames |-> Free("renderbuffer")]
    /\ gl_samplers = [n \in SamplerNames |-> Free("sampler")]
    /\ framebuffers = {}
    /\ renderbuffers = {}
    /\ samplers = {}
    /\ gl_shaders = [n \in ShaderNames |-> Free("shader")]
    /\ gl_programs = [n \in ProgramNames |-> Free("program")]
    /\ shaders = {}
    /\ pipelines = {}
    /\ gl_uniforms = [n \in ProgramNames |-> NoUniforms]
    /\ gl_use_program = 0
    /\ calls = <<>>
    /\ op = Idle

NextImage ==
    \/ CreateImage
    \/ DeleteImage
    \/ Return

NextView ==
    \/ CreateImageAndView
    \/ CreateImageView
    \/ DeleteImage
    \/ DeleteImageView
    \/ GenerateMipmaps
    \/ Return

NextBuffer ==
    \/ CreateBuffer
    \/ CreateBufferFromHost
    \/ MapBuffer
    \/ UnmapBuffer
    \/ DeleteBuffer
    \/ Return

NextVertexArray ==
    \/ CreateVertexArray
    \/ DeleteVertexArray
    \/ Return

NextVertexBuffers ==
    \/ CreateBuffer
    \/ CreateVertexArray
    \/ BindVertexBuffers
    \/ Return

NextBlend ==
    \/ BindColorBlendState
    \/ Return

NextDepthStencil ==
    \/ BindDepthStencilState
    \/ Return

NextRasterization ==
    \/ BindRasterizationState
    \/ Return

\* The part of the context's state each kind of state object covers.
DepthStencilPart(st) ==
    <<st.caps \cap {"DEPTH_TEST", "STENCIL_TEST"}, st.depth_mask, st.depth_func,
      st.stencil_func, st.stencil_op>>
RasterizationPart(st) ==
    <<st.caps \cap {"DEPTH_CLAMP", "RASTERIZER_DISCARD", "POLYGON_OFFSET_POINT",
                    "POLYGON_OFFSET_LINE", "POLYGON_OFFSET_FILL", "CULL_FACE"},
      st.polygon_mode, st.front_face, st.cull_face>>
MultisamplePart(st) ==
    <<st.caps \cap {"MULTISAMPLE", "SAMPLE_SHADING", "SAMPLE_ALPHA_TO_COVERAGE",
                    "SAMPLE_ALPHA_TO_ONE"},
      st.min_sample_shading, st.sample_mask>>

\* A caller that rebinds state objects of one kind.  (The three binds write
\* disjoint parts of the context, so the sequences of binds are explored
\* kind by kind.)
OneKind ==
    Cardinality({part \in {"depth_stencil", "rasterization", "multisample"} :
        CASE part = "depth_stencil" ->
                DepthStencilPart(gl_state) # DepthStencilPart(InitialState)
          [] part = "rasterization" ->
                RasterizationPart(gl_state) # RasterizationPart(InitialState)
          [] part = "multisample" ->
                MultisamplePart(gl_state) # MultisamplePart(InitialState)}) <= 1

NextTargets ==
    \/ CreateFramebuffer
    \/ CreateRenderbuffer
    \/ CreateSampler
    \/ Return

NextPrograms ==
    \/ CreateShader
    \/ CreateGraphicsPipeline
    \/ CreateComputePipeline
    \/ Return

\* The life of pipelines made of shaders that compile.
NextPipelineUse ==
    /\ \/ CreateShader
       \/ CreateGraphicsPipeline
       \/ CreateComputePipeline
       \/ BindPipeline
       \/ BindUniformConstants
       \/ Draw
       \/ Dispatch
       \/ DeletePipeline
       \/ Return
    /\ \A n \in ShaderNames :
           gl_shaders'[n] \in {Free("shader"),
                               [stage |-> "VERTEX_SHADER", source |-> "source",
                                compiled |-> TRUE, info_log |-> ""],
                               [stage |-> "COMPUTE_SHADER", source |-> "source",
                                compiled |-> TRUE, info_log |-> ""]}

\* The targets create_image resolves the shapes to.
ImageTargets == {ResolveTarget(ty) : ty \in ImageType}

\* The match of create_image_view as a function of the image's target and
\* of the view type, for an image of each target create_image resolves.
CreateImageViewTarget ==
    \E target \in ImageTargets, ty \in ImageViewType, format \in ImageFormats,
       levels \in ViewLevelRanges, layers \in ViewLayerRanges :
        Lookup("create_image_view: target",
               [image |-> [raw |-> 1, target |-> target], ty |-> ty, format |-> format,
                range |-> SubresourceRange(levels, layers)],
               ViewTarget(target, ty))

NextAttachments ==
    \/ CreateFramebuffer
    \/ CreateRenderbuffer
    \/ CreateImageAndView
    \/ BindAttachments
    \/ Return

\* Transfers between images of one layer or of MaxExtent layers and
\* device-local buffers.
NextTransfer ==
    /\ \/ CreateImage
       \/ CreateBuffer
       \/ CopyHostToImage
       \/ CopyBufferToImage
       \/ Return
    /\ \A n \in BufferNames : buffer_memory'[n] \in {0, DEVICE_LOCAL}
    /\ op'.name = "create_buffer" => op'.args.memory = DEVICE_LOCAL
    /\ op'.name = "create_image" =>
           /\ op'.args.ty.layers \in {1, MaxExtent}
           /\ op'.args.ty.samples = 1
           /\ op'.args.levels = 1

NextBlit ==
    \/ CreateFramebuffer
    \/ Blit
    \/ Return

NextBarrier ==
    \/ MemoryBarrier
    \/ Return

NextViewTarget ==
    \/ CreateImageViewTarget
    \/ Return

NextFormat ==
    \/ FormatBaseFormat
    \/ FormatNumComponents
    \/ BaseFormatNumComponents
    \/ Return

NextStateObjects ==
    /\ \/ BindDepthStencilState
       \/ BindRasterizationState
       \/ BindMultisampleState
       \/ Return
    /\ OneKind'

Next ==
    \/ NextImage \/ NextView \/ NextBuffer \/ NextVertexArray \/ NextVertexBuffers
    \/ NextBlend \/ NextDepthStencil \/ NextRasterization \/ NextStateObjects
    \/ NextFormat \/ NextTargets \/ NextPrograms \/ NextPipelineUse
    \/ NextViewTarget \/ NextAttachments \/ NextTransfer
    \/ NextBlit \/ NextBarrier

\* The operations that create and use images; those that create views;
\* those on buffers; and all of them.
SpecImage == Init /\ [][NextImage]_vars
SpecView == Init /\ [][NextView]_vars
SpecBuffer == Init /\ [][NextBuffer]_vars
SpecVertexArray == Init /\ [][NextVertexArray]_vars
SpecVertexBuffers == Init /\ [][NextVertexBuffers]_vars
SpecBlend == Init /\ [][NextBlend]_vars
SpecDepthStencil == Init /\ [][NextDepthStencil]_vars
SpecRasterization == Init /\ [][NextRasterization]_vars
SpecStateObjects == Init /\ [][NextStateObjects]_vars
SpecFormat == Init /\ [][NextFormat]_vars
SpecTargets == Init /\ [][NextTargets]_vars
SpecPrograms == Init /\ [][NextPrograms]_vars
SpecViewTarget == Init /\ [][NextViewTarget]_vars
SpecAttachments == Init /\ [][NextAttachments]_vars
SpecTransfer == Init /\ [][NextTransfer]_vars
SpecBlit == Init /\ [][NextBlit]_vars
SpecBarrier == Init /\ [][NextBarrier]_vars
SpecPipelineUse == Init /\ [][NextPipelineUse]_vars
Spec == Init /\ [][Next]_vars

----------------------------------------------------------------------------
(* Properties of create_image and create_image_and_view (SpecImage) *)

\* The last operation ran create_image (directly, or first thing in
\* create_image_and_view) on shape ty.
IsCreateImage == op.name \in {"create_image", "create_image_and_view"}
IsD2(ty, layers, samples) == ty.tag = "D2" /\ ty.layers = layers /\ ty.samples = samples

\* The texture object was created with this target.
CreatedWith(target) ==
    /\ Len(calls) >= 1
    /\ calls[1].fn = "CreateTextures"
    /\ calls[1].args[1] = target

\* The Image handed back by the operation.
ReturnedImage == IF op.name = "create_image" THEN op.value ELSE op.value.image

\* The storage call the operation issued, if it got that far.
StorageIssued == Len(calls) >= 2 /\ calls[2].fn \in
                    {"TextureStorage1D", "TextureStorage2D", "TextureStorage3D"}

\* C1 as stated: a D2 shape with layers = 6 and samples = 1 is created with
\* the cube-map target.
C1_CubeMapTarget ==
    (IsCreateImage /\ IsD2(op.args.ty, 6, 1)) => CreatedWith("TEXTURE_CUBE_MAP")

\* C1, amended: a D2 shape with layers = 6 and samples = 1, whatever its
\* width, height, format and level count, is created with the 2D-array
\* target, and that is the target of the Image returned.
C1_SixLayersAre2DArray ==
    (IsCreateImage /\ IsD2(op.args.ty, 6, 1)) =>
        /\ CreatedWith("TEXTURE_2D_ARRAY")
        /\ op.status = "Ok" => ReturnedImage.target = "TEXTURE_2D_ARRAY"

C1_Witness ==
    /\ op.name = "create_image"
    /\ IsD2(op.args.ty, 6, 1)
    /\ op.status = "Ok"
    /\ op.args.ty.width # op.args.ty.height

\* C2 as stated: a D2 shape with samples = 1 and a layer count that is a
\* multiple of 6 other than 6 is created with the cube-map-array target.
C2_CubeMapArrayTarget ==
    (/\ IsCreateImage
     /\ op.args.ty.tag = "D2" /\ op.args.ty.samples = 1
     /\ op.args.ty.layers % 6 = 0 /\ op.args.ty.layers # 6)
        => CreatedWith("TEXTURE_CUBE_MAP_ARRAY")

\* C2, amended: a D2 shape with samples = 1 and a layer count that is a
\* multiple of 6 other than 6 (12, say) is created with the 2D-array target.
C2_MultiplesOfSixAre2DArray ==
    (/\ IsCreateImage
     /\ op.args.ty.tag = "D2" /\ op.args.ty.samples = 1
     /\ op.args.ty.layers % 6 = 0 /\ op.args.ty.layers # 6)
        => /\ CreatedWith("TEXTURE_2D_ARRAY")
           /\ op.status = "Ok" => ReturnedImage.target = "TEXTURE_2D_ARRAY"

C2_Witness ==
    /\ op.name = "create_image"
    /\ IsD2(op.args.ty, 12, 1)
    /\ op.status = "Ok"

\* C3: a D2 shape with samples = 1 and a layer count that is neither 1 nor a
\* multiple of 6 is created with the plain 2D-array target, never with a
\* cube-map or cube-map-array target.
C3_OtherLayerCountsAre2DArray ==
    (/\ IsCreateImage
     /\ op.args.ty.tag = "D2" /\ op.args.ty.samples = 1
     /\ op.args.ty.layers # 1 /\ op.args.ty.layers % 6 # 0)
        => /\ CreatedWith("TEXTURE_2D_ARRAY")
           /\ ~CreatedWith("TEXTURE_CUBE_MAP")
           /\ ~CreatedWith("TEXTURE_CUBE_MAP_ARRAY")

C3_Witness ==
    /\ op.name = "create_image"
    /\ IsD2(op.args.ty, 7, 1)
    /\ op.status = "Ok"

\* The rows of the priority table outside the cube-map rows.
C4_Table(ty) ==
    CASE ty.tag = "D1" /\ ty.layers = 1 -> "TEXTURE_1D"
      [] ty.tag = "D1" /\ ty.layers # 1 -> "TEXTURE_1D_ARRAY"
      [] ty.tag = "D2" /\ ty.layers = 1 /\ ty.samples = 1 -> "TEXTURE_2D"
      [] ty.tag = "D2" /\ ty.layers = 1 /\ ty.samples > 1 -> "TEXTURE_2D_MULTISAMPLE"
      [] ty.tag = "D2" /\ ty.layers > 1 /\ ty.samples > 1 -> "TEXTURE_2D_MULTISAMPLE_ARRAY"
      [] ty.tag = "D3" -> "TEXTURE_3D"
      [] OTHER -> "not in these rows"

\* C4: outside the cube-map rows the texture is created with the target of
\* the priority table: D1 gives 1D or 1D-array by its layer count, D2 with one
\* layer gives 2D or multisampled 2D by its sample count, D2 with several
\* layers and several samples gives multisampled 2D-array, D3 gives 3D.
C4_PriorityTable ==
    (IsCreateImage /\ C4_Table(op.args.ty) # "not in these rows")
        => CreatedWith(C4_Table(op.args.ty))

C4_Witness ==
    /\ op.name = "create_image"
    /\ op.args.ty.tag = "D2" /\ op.args.ty.layers > 1 /\ op.args.ty.samples > 1
    /\ CreatedWith("TEXTURE_2D_MULTISAMPLE_ARRAY")

\* The three shapes of C5 whose second extent is H.
C5_Shape(ty) ==
    \/ ty.tag = "D1" /\ ty.layers > 1
    \/ IsD2(ty, 1, 1)
    \/ IsD2(ty, 6, 1)
C5_H(ty) == IF ty.tag = "D1" THEN ty.layers ELSE ty.height

\* C5 as stated: D1{width, layers = H} with H > 1, D2{width, height = H,
\* layers = 1, samples = 1} and D2{width, height = H, layers = 6, samples = 1}
\* all issue the two-dimensional storage call with (width, H).
C5_SameStorage2D ==
    (IsCreateImage /\ C5_Shape(op.args.ty) /\ StorageIssued) =>
        calls[2] = Call("TextureStorage2D",
                        <<calls[1].args[2], op.args.levels, op.args.format,
                          op.args.ty.width, C5_H(op.args.ty)>>)

\* C5, amended: D1{width, layers = H} with H > 1 and D2{width, height = H,
\* layers = 1, samples = 1} issue the same two-dimensional storage call
\* (width, H) on textures of different targets (1D-array, 2D);
\* D2{width, height = H, layers = 6, samples = 1} issues the three-dimensional
\* storage call (width, H, 6) on a 2D-array texture.  The call is issued
\* whenever creating the texture reported no error.
C5_StorageByShape ==
    (IsCreateImage /\ C5_Shape(op.args.ty)) =>
        /\ op.status = "Ok" => StorageIssued
        /\ StorageIssued =>
            /\ calls[2] =
                 IF IsD2(op.args.ty, 6, 1)
                 THEN Call("TextureStorage3D",
                           <<calls[1].args[2], op.args.levels, op.args.format,
                             op.args.ty.width, op.args.ty.height, 6>>)
                 ELSE Call("TextureStorage2D",
                           <<calls[1].args[2], op.args.levels, op.args.format,
                             op.args.ty.width, C5_H(op.args.ty)>>)
            /\ CreatedWith(CASE op.args.ty.tag = "D1" -> "TEXTURE_1D_ARRAY"
                             [] IsD2(op.args.ty, 1, 1) -> "TEXTURE_2D"
                             [] IsD2(op.args.ty, 6, 1) -> "TEXTURE_2D_ARRAY")

C5_Witness ==
    /\ op.name = "create_image"
    /\ IsD2(op.args.ty, 6, 1)
    /\ op.args.ty.height > 1
    /\ op.status = "Ok"
    /\ calls[2].fn = "TextureStorage3D"

\* The view call of create_image_and_view, if it got that far.
ViewIssued == Len(calls) = 4 /\ calls[4].fn = "TextureView"

\* C6 as stated: for a D2 shape with layers = 6 and samples = 1 the default
\* view is a Cube view of layers 0..6 and mip levels 0..levels.
C6_DefaultViewIsCube ==
    (op.name = "create_image_and_view" /\ IsD2(op.args.ty, 6, 1) /\ ViewIssued) =>
        calls[4].args = <<calls[3].args[1], "TEXTURE_CUBE_MAP", calls[1].args[2],
                          op.args.format, 0, op.args.levels, 0, 6>>

\* C6, amended: for a D2 shape with layers = 6 and samples = 1 the default
\* view is a 2D-array view of layers 0..6 and mip levels 0..levels; for every
\* shape the default view has the target the image was created with and
\* spans mip levels 0..levels and all the layers of the shape.
C6_DefaultViewMatchesImage ==
    (op.name = "create_image_and_view") =>
        /\ op.status = "Ok" => ViewIssued
        /\ ViewIssued =>
            /\ calls[4].args = <<calls[3].args[1], calls[1].args[1], calls[1].args[2],
                                 op.args.format, 0, op.args.levels,
                                 0, IF op.args.ty.tag = "D3" THEN 1
                                    ELSE op.args.ty.layers>>
            /\ IsD2(op.args.ty, 6, 1) => calls[4].args[2] = "TEXTURE_2D_ARRAY"

C6_Witness ==
    /\ op.name = "create_image_and_view"
    /\ IsD2(op.args.ty, 6, 1)
    /\ op.args.levels > 1
    /\ op.status = "Ok"

\* C7: a multisampled D2 shape, with or without layers, never gets storage:
\* the operation stops at the unimplemented!() arm right after the texture
\* was created with the multisample target of the shape (or returns the
\* out-of-memory error of that creation), issues no storage call and does
\* not return an Image.
C7_MultisampleFailsFast ==
    (IsCreateImage /\ op.args.ty.tag = "D2" /\ op.args.ty.samples > 1) =>
        /\ op.status \in {"Panic", "OutOfMemory"}
        /\ Len(calls) = 1
        /\ CreatedWith(IF op.args.ty.layers = 1 THEN "TEXTURE_2D_MULTISAMPLE"
                       ELSE "TEXTURE_2D_MULTISAMPLE_ARRAY")

C7_Witness ==
    /\ op.name = "create_image"
    /\ op.args.ty.tag = "D2" /\ op.args.ty.samples > 1 /\ op.args.ty.layers > 1
    /\ op.status = "Panic"

----------------------------------------------------------------------------
(* Properties of create_buffer and map_buffer (SpecBuffer) *)

IsCreateBuffer == op.name \in {"create_buffer", "create_buffer_from_host"}

\* The access flags of the mapping call map_buffer issued.
MapIssued == op.name = "map_buffer" /\ Len(calls) = 1
                /\ calls[1].fn = "MapNamedBufferRange"
MapFlags == calls[1].args[4]

\* C8: the access flags of the mapping call contain the read bit only if the
\* buffer was created with CPU_MAP_READ, and the write bit only if it was
\* created with CPU_MAP_WRITE.
C8_MapAccessCappedByCreation ==
    MapIssued =>
        LET memory == buffer_memory[op.args.buffer.raw]
        IN  /\ "MAP_READ_BIT" \in MapFlags => contains(memory, CPU_MAP_READ)
            /\ "MAP_WRITE_BIT" \in MapFlags => contains(memory, CPU_MAP_WRITE)

C8_Witness ==
    /\ MapIssued
    /\ contains(buffer_memory[op.args.buffer.raw], CPU_MAP_WRITE)
    /\ ~contains(buffer_memory[op.args.buffer.raw], CPU_MAP_READ)
    /\ "MAP_WRITE_BIT" \in MapFlags

AccessBits == {"MAP_READ_BIT", "MAP_WRITE_BIT", "MAP_PERSISTENT_BIT", "MAP_COHERENT_BIT",
               "MAP_UNSYNCHRONIZED_BIT", "CLIENT_STORAGE_BIT", "DYNAMIC_STORAGE_BIT"}

\* C9: the access flags of the mapping call are the unsynchronized bit, if
\* and only if UNSYNCHRONIZED was requested, together with those of the
\* coherent, persistent, read and write bits that the Buffer stores; the
\* client-storage and dynamic-storage bits are never passed on.
C9_MapAccessExact ==
    MapIssued =>
        /\ MapFlags \subseteq AccessBits
        /\ \A bit \in AccessBits :
              bit \in MapFlags <=>
                \/ bit = "MAP_UNSYNCHRONIZED_BIT" /\ op.args.mapping % 2 = 1
                \/ /\ bit \in {"MAP_COHERENT_BIT", "MAP_PERSISTENT_BIT",
                               "MAP_READ_BIT", "MAP_WRITE_BIT"}
                   /\ bit \in op.args.buffer.flags

C9_Witness ==
    /\ MapIssued
    /\ op.args.mapping = UNSYNCHRONIZED
    /\ {"CLIENT_STORAGE_BIT", "DYNAMIC_STORAGE_BIT", "MAP_READ_BIT"}
          \subseteq op.args.buffer.flags

\* C10: the creation flags passed to the storage call, and stored in the
\* Buffer returned, are exactly: client-storage iff DEVICE_LOCAL is absent,
\* coherent iff COHERENT, read iff CPU_MAP_READ, write iff CPU_MAP_WRITE,
\* persistent iff any of COHERENT, CPU_MAP_READ, CPU_MAP_WRITE, and
\* dynamic-storage iff DYNAMIC; no other bit is set.
C10_CreationFlagsExact ==
    IsCreateBuffer =>
        LET m == op.args.memory
            Exact(f) ==
                /\ f \subseteq AccessBits \ {"MAP_UNSYNCHRONIZED_BIT"}
                /\ "CLIENT_STORAGE_BIT" \in f <=> (m \div DEVICE_LOCAL) % 2 = 0
                /\ "MAP_COHERENT_BIT" \in f <=> (m \div COHERENT) % 2 = 1
                /\ "MAP_READ_BIT" \in f <=> (m \div CPU_MAP_READ) % 2 = 1
                /\ "MAP_WRITE_BIT" \in f <=> (m \div CPU_MAP_WRITE) % 2 = 1
                /\ "MAP_PERSISTENT_BIT" \in f <=>
                      \/ (m \div COHERENT) % 2 = 1
                      \/ (m \div CPU_MAP_READ) % 2 = 1
                      \/ (m \div CPU_MAP_WRITE) % 2 = 1
                /\ "DYNAMIC_STORAGE_BIT" \in f <=> (m \div DYNAMIC) % 2 = 1
        IN  /\ Len(calls) = 2 => calls[2].fn = "NamedBufferStorage" /\ Exact(calls[2].args[4])
            /\ op.status = "Ok" =>
                  /\ Len(calls) = 2
                  /\ op.value.flags = calls[2].args[4]
                  /\ op.value \in buffers
                  /\ gl_buffers[op.value.raw].flags = op.value.flags

C10_Witness ==
    /\ op.name = "create_buffer"
    /\ op.status = "Ok"
    /\ op.args.memory = COHERENT + CPU_MAP_WRITE + DYNAMIC
    /\ op.value.flags = {"CLIENT_STORAGE_BIT", "MAP_COHERENT_BIT", "MAP_PERSISTENT_BIT",
                         "MAP_WRITE_BIT", "DYNAMIC_STORAGE_BIT"}

----------------------------------------------------------------------------
(* Properties of create_vertex_array (SpecVertexArray) *)

\* The enumerators whose name starts with X, Xy, Xyz, Xyzw.
NamedX == {
    "X8Int", "X8Uint", "X8Unorm", "X8Inorm", "X8Uscaled", "X8Iscaled",
    "X16Int", "X16Uint", "X16Float", "X16Unorm", "X16Inorm", "X16Uscaled",
    "X16Iscaled", "X32Int", "X32Uint", "X32Float", "X32Unorm", "X32Inorm",
    "X32Uscaled", "X32Iscaled", "X64Float"}

NamedXy == {
    "Xy8Int", "Xy8Uint", "Xy8Unorm", "Xy8Inorm", "Xy8Uscaled", "Xy8Iscaled",
    "Xy16Int", "Xy16Uint", "Xy16Float", "Xy16Unorm", "Xy16Inorm",
    "Xy16Uscaled", "Xy16Iscaled", "Xy32Int", "Xy32Uint", "Xy32Float",
    "Xy32Unorm", "Xy32Inorm", "Xy32Uscaled", "Xy32Iscaled", "Xy64Float"}

NamedXyz == {
    "Xyz8Int", "Xyz8Uint", "Xyz8Unorm", "Xyz8Inorm", "Xyz8Uscaled",
    "Xyz8Iscaled", "Xyz16Int", "Xyz16Uint", "Xyz16Float", "Xyz16Unorm",
    "Xyz16Inorm", "Xyz16Uscaled", "Xyz16Iscaled", "Xyz32Int", "Xyz32Uint",
    "Xyz32Float", "Xyz32Unorm", "Xyz32Inorm", "Xyz32Uscaled", "Xyz32Iscaled",
    "Xyz64Float"}

NamedXyzw == {
    "Xyzw8Int", "Xyzw8Uint", "Xyzw8Unorm", "Xyzw8Inorm", "Xyzw8Uscaled",
    "Xyzw8Iscaled", "Xyzw16Int", "Xyzw16Uint", "Xyzw16Float", "Xyzw16Unorm",
    "Xyzw16Inorm", "Xyzw16Uscaled", "Xyzw16Iscaled", "Xyzw32Int",
    "Xyzw32Uint", "Xyzw32Float", "Xyzw32Unorm", "Xyzw32Inorm",
    "Xyzw32Uscaled", "Xyzw32Iscaled", "Xyzw64Float"}

NamedComponents(format) ==
    CASE format \in NamedX -> 1
      [] format \in NamedXy -> 2
      [] format \in NamedXyz -> 3
      [] format \in NamedXyzw -> 4

ScalarTypes == {"BYTE", "UNSIGNED_BYTE", "SHORT", "UNSIGNED_SHORT", "INT",
                "UNSIGNED_INT", "HALF_FLOAT", "FLOAT", "DOUBLE"}

IsCreateVertexArray == op.name = "create_vertex_array" /\ op.status = "Ok"

\* The format-configuration call of the i-th attribute: the second call of
\* the i-th round of the loop.
FormatCallOf(i) == calls[3 * i]

\* C11: every VertexFormat enumerator resolves to one (base, num, ty, norm)
\* tuple whose component count is in 1..4 and is the count its name gives
\* (X 1, Xy 2, Xyz 3, Xyzw 4); and that count is the one create_vertex_array
\* passes to the context for each attribute.  (The first conjunct speaks of
\* the table alone; it is evaluated between operations.)
C11_ResolverExhaustive ==
    /\ op = Idle =>
           \A f \in VertexFormat :
               /\ FormatArm(f) \in [base : VertexBase, num : 1..4, ty : ScalarTypes,
                                    norm : BOOLEAN]
               /\ FormatArm(f).num = NamedComponents(f)
    /\ IsCreateVertexArray =>
           \A i \in 1..Len(op.args.attributes) :
               /\ FormatCallOf(i).args[3] \in 1..4
               /\ FormatCallOf(i).args[3] = NamedComponents(op.args.attributes[i].format)

C11_Witness ==
    /\ IsCreateVertexArray
    /\ Len(op.args.attributes) >= 1
    /\ op.args.attributes[1].format = "Xyz16Float"
    /\ FormatCallOf(1).args[3] = 3

\* The enumerators named Int or Uint; those named 64Float; those named Unorm or Inorm.
NamedInt == {
    "X8Int", "X8Uint", "Xy8Int", "Xy8Uint", "Xyz8Int", "Xyz8Uint",
    "Xyzw8Int", "Xyzw8Uint", "X16Int", "X16Uint", "Xy16Int", "Xy16Uint",
    "Xyz16Int", "Xyz16Uint", "Xyzw16Int", "Xyzw16Uint", "X32Int", "X32Uint",
    "Xy32Int", "Xy32Uint", "Xyz32Int", "Xyz32Uint", "Xyzw32Int", "Xyzw32Uint"}

Named64Float == {
    "X64Float", "Xy64Float", "Xyz64Float", "Xyzw64Float"}

NamedNorm == {
    "X8Unorm", "X8Inorm", "Xy8Unorm", "Xy8Inorm", "Xyz8Unorm", "Xyz8Inorm",
    "Xyzw8Unorm", "Xyzw8Inorm", "X16Unorm", "X16Inorm", "Xy16Unorm",
    "Xy16Inorm", "Xyz16Unorm", "Xyz16Inorm", "Xyzw16Unorm", "Xyzw16Inorm",
    "X32Unorm", "X32Inorm", "Xy32Unorm", "Xy32Inorm", "Xyz32Unorm",
    "Xyz32Inorm", "Xyzw32Unorm", "Xyzw32Inorm"}

FormatFns == {"VertexArrayAttribIFormat", "VertexArrayAttribFormat",
              "VertexArrayAttribLFormat"}

\* C12: create_vertex_array issues one format-configuration call per
\* attribute, for that attribute's location: the integer call iff the format
\* is named Int or Uint, the double call iff it is named 64Float, the float
\* call otherwise; the float call asks for normalization iff the format is
\* named Unorm or Inorm.
C12_OneFormatCallPerAttribute ==
    IsCreateVertexArray =>
        LET attributes == op.args.attributes
        IN  /\ Len(calls) = 1 + 3 * Len(attributes)
            /\ Cardinality({k \in 1..Len(calls) : calls[k].fn \in FormatFns})
                   = Len(attributes)
            /\ \A i \in 1..Len(attributes) :
                   LET c == FormatCallOf(i)
                       f == attributes[i].format
                   IN  /\ c.fn \in FormatFns
                       /\ c.args[1] = op.value
                       /\ c.args[2] = attributes[i].location
                       /\ c.fn = "VertexArrayAttribIFormat" <=> f \in NamedInt
                       /\ c.fn = "VertexArrayAttribLFormat" <=> f \in Named64Float
                       /\ c.fn = "VertexArrayAttribFormat" <=>
                              f \notin NamedInt \cup Named64Float
                       /\ c.fn = "VertexArrayAttribFormat" =>
                              (c.args[5] = TRUE <=> f \in NamedNorm)

C12_Witness ==
    /\ IsCreateVertexArray
    /\ Len(op.args.attributes) >= 1
    /\ op.args.attributes[1].format = "Xy16Inorm"
    /\ FormatCallOf(1).fn = "VertexArrayAttribFormat"
    /\ FormatCallOf(1).args[5] = TRUE

----------------------------------------------------------------------------
(* Properties of bind_vertex_buffers (SpecVertexBuffers) *)

DivisorCalls == {k \in 1..Len(calls) : calls[k].fn = "VertexArrayBindingDivisor"}

\* C13: bind_vertex_buffers(vao, first, views) sets the divisor of binding
\* slot first + i to 0 when views[i] has input rate Vertex and to d when it
\* has Instance{divisor: d}, for every i (one call per view, and that is the
\* divisor the slot has afterwards); create_vertex_array sets no divisor.
C13_DivisorPerBinding ==
    /\ op.name = "bind_vertex_buffers" =>
           LET vs == op.args.views
               d(i) == IF vs[i].input_rate.tag = "Vertex" THEN 0
                       ELSE vs[i].input_rate.divisor
           IN  /\ Cardinality(DivisorCalls) = Len(vs)
               /\ \A i \in 1..Len(vs) :
                      /\ calls[1 + i].fn = "VertexArrayBindingDivisor"
                      /\ calls[1 + i].args = <<op.args.vao, op.args.first + (i - 1), d(i)>>
                      /\ gl_vertex_arrays[op.args.vao].divisor[op.args.first + (i - 1)]
                             = d(i)
    /\ op.name = "create_vertex_array" => DivisorCalls = {}

C13_Witness ==
    /\ op.name = "bind_vertex_buffers"
    /\ op.args.first = 1
    /\ Len(op.args.views) = 2
    /\ op.args.views[1].input_rate = Instance(1)
    /\ op.args.views[2].input_rate = Vertex
    /\ gl_vertex_arrays[op.args.vao].divisor[1] = 1
    /\ gl_vertex_arrays[op.args.vao].divisor[2] = 0

----------------------------------------------------------------------------
(* Properties of bind_color_blend_state (SpecBlend) *)

\* The step is a call of the operation `name`.
Calls(name) == op = Idle /\ op'.name = name

\* C14: bind_color_blend_state touches blend slot i only for the indices i
\* of the list.  For a disabled attachment it disables slot i and leaves the
\* slot's equation and factors as they were; for an enabled one it enables
\* slot i and writes the colour/alpha equations and the four factors of the
\* attachment.  Slots past the end of the list change in nothing, and no
\* equation or factor call is issued for a slot that is not enabled by the
\* list.
C14_BlendSlotsIndependent ==
    [][Calls("bind_color_blend_state") =>
        LET attachments == op'.args.state.attachments
            Listed(slot) == slot < Len(attachments)
            Enabled(slot) == Listed(slot) /\ attachments[slot + 1].blend_enable
        IN  /\ \A slot \in BlendSlots :
                   LET a == attachments[slot + 1]
                   IN  /\ Enabled(slot) =>
                              /\ slot \in gl_state'.blend_enabled
                              /\ gl_state'.blend_equation[slot] =
                                     <<GLBlendOp[a.color.blend_op],
                                       GLBlendOp[a.alpha.blend_op]>>
                              /\ gl_state'.blend_func[slot] =
                                     <<GLBlendFactor[a.color.src_factor],
                                       GLBlendFactor[a.color.dst_factor],
                                       GLBlendFactor[a.alpha.src_factor],
                                       GLBlendFactor[a.alpha.dst_factor]>>
                       /\ Listed(slot) /\ ~Enabled(slot) =>
                              slot \notin gl_state'.blend_enabled
                       /\ ~Listed(slot) =>
                              (slot \in gl_state'.blend_enabled
                                   <=> slot \in gl_state.blend_enabled)
                       /\ ~Enabled(slot) =>
                              /\ gl_state'.blend_equation[slot] =
                                     gl_state.blend_equation[slot]
                              /\ gl_state'.blend_func[slot] = gl_state.blend_func[slot]
            /\ \A k \in 1..Len(calls') :
                   /\ calls'[k].fn \in {"Enablei", "Disablei"} =>
                          Listed(calls'[k].args[2])
                   /\ calls'[k].fn \in {"BlendEquationSeparatei", "BlendFuncSeparatei"} =>
                          Enabled(calls'[k].args[1])]_vars

\* Attachment 0 enabled, attachment 1 disabled: slot 1 is off and still has
\* the equation an earlier bind gave it.
C14_Witness ==
    /\ op.name = "bind_color_blend_state"
    /\ Len(op.args.state.attachments) = 2
    /\ op.args.state.attachments[1].blend_enable
    /\ ~op.args.state.attachments[2].blend_enable
    /\ 0 \in gl_state.blend_enabled
    /\ 1 \notin gl_state.blend_enabled
    /\ gl_state.blend_equation[1] = <<"FUNC_REVERSE_SUBTRACT", "FUNC_ADD">>
    /\ gl_state.blend_equation[0] = <<"FUNC_ADD", "FUNC_REVERSE_SUBTRACT">>

----------------------------------------------------------------------------
(* Properties of the binds of depth-stencil, rasterization and multisample
   state (SpecStateObjects, SpecRasterization, SpecDepthStencil) *)

\* The part of the context the state object of the last bind covers, in
\* context state st.
CoveredPart(st) ==
    CASE op.name = "bind_depth_stencil_state" -> DepthStencilPart(st)
      [] op.name = "bind_rasterization_state" -> RasterizationPart(st)
      [] op.name = "bind_multisample_state" -> MultisamplePart(st)

\* C15 as stated: after a bind, the context state the object covers is what
\* the same bind gives on a new context, whatever earlier binds left behind.
C15_TotalReplay ==
    op.name \in {"bind_depth_stencil_state", "bind_rasterization_state",
                 "bind_multisample_state"} =>
        CoveredPart(gl_state) = CoveredPart(Run(InitialState, calls))

StencilFunc(face) ==
    <<GLCompare[face.compare_op], face.reference, face.compare_mask>>
StencilOps(face) ==
    <<GLStencilOp[face.fail], GLStencilOp[face.depth_fail], GLStencilOp[face.pass]>>
OffsetToggle ==
    [Point |-> "POLYGON_OFFSET_POINT", Line |-> "POLYGON_OFFSET_LINE",
     Fill |-> "POLYGON_OFFSET_FILL"]

\* cap is on after the step iff `on`; cap is as it was before the step.
Set(cap, on) == (cap \in gl_state'.caps) <=> on
Kept(cap) == (cap \in gl_state'.caps) <=> (cap \in gl_state.caps)

\* C15, amended: every bind writes all toggles of its object, and the fields
\* a toggle governs only when the toggle is on.  After the call the toggles,
\* and the fields under a toggle that is on, are those of the object
\* whatever earlier binds left behind; the fields under a toggle that is off
\* (depth mask and function, stencil functions and operations, cull face,
\* minimum sample shading, everything but MULTISAMPLE when no multisample
\* state is given) and the depth-bias toggles of the polygon modes not
\* selected keep the values earlier binds left.
C15_ReplayOfEnabledGroups ==
    [][LET s == op'.args.state
           g == gl_state
           h == gl_state'
       IN  /\ Calls("bind_depth_stencil_state") =>
                  /\ Set("DEPTH_TEST", s.depth_test)
                  /\ h.depth_mask = IF s.depth_test THEN s.depth_write ELSE g.depth_mask
                  /\ h.depth_func = IF s.depth_test THEN GLCompare[s.depth_compare_op]
                                    ELSE g.depth_func
                  /\ Set("STENCIL_TEST", s.stencil_test)
                  /\ h.stencil_func =
                         IF s.stencil_test
                         THEN [FRONT |-> StencilFunc(s.stencil_front),
                               BACK |-> StencilFunc(s.stencil_back)]
                         ELSE g.stencil_func
                  /\ h.stencil_op =
                         IF s.stencil_test
                         THEN [FRONT |-> StencilOps(s.stencil_front),
                               BACK |-> StencilOps(s.stencil_back)]
                         ELSE g.stencil_op
           /\ Calls("bind_rasterization_state") =>
                  /\ Set("DEPTH_CLAMP", s.depth_clamp)
                  /\ Set("RASTERIZER_DISCARD", s.rasterizer_discard)
                  /\ \A m \in PolygonMode :
                         IF m = s.polygon_mode THEN Set(OffsetToggle[m], s.depth_bias)
                         ELSE Kept(OffsetToggle[m])
                  /\ h.polygon_mode = GLPolygonMode[s.polygon_mode]
                  /\ h.front_face = GLFrontFace[s.front_face]
                  /\ Set("CULL_FACE", s.cull_mode # None)
                  /\ h.cull_face = IF s.cull_mode # None THEN GLCullMode[s.cull_mode[1]]
                                   ELSE g.cull_face
           /\ Calls("bind_multisample_state") =>
                  /\ Set("MULTISAMPLE", s # None)
                  /\ s # None =>
                         /\ Set("SAMPLE_SHADING", s[1].sample_shading)
                         /\ h.min_sample_shading =
                                IF s[1].sample_shading THEN s[1].min_sample_shading
                                ELSE g.min_sample_shading
                         /\ h.sample_mask =
                                <<Low32(s[1].sample_mask), High32(s[1].sample_mask)>>
                         /\ Set("SAMPLE_ALPHA_TO_COVERAGE", s[1].alpha_to_coverage)
                         /\ Set("SAMPLE_ALPHA_TO_ONE", s[1].alpha_to_one)
                  /\ s = None =>
                         /\ Kept("SAMPLE_SHADING")
                         /\ Kept("SAMPLE_ALPHA_TO_COVERAGE")
                         /\ Kept("SAMPLE_ALPHA_TO_ONE")
                         /\ h.min_sample_shading = g.min_sample_shading
                         /\ h.sample_mask = g.sample_mask]_vars

\* A state with depth_test = false and depth_write = true is bound, and the
\* depth mask is still the FALSE an earlier bind wrote.
C15_Witness ==
    /\ op.name = "bind_depth_stencil_state"
    /\ ~op.args.state.depth_test
    /\ op.args.state.depth_write
    /\ "DEPTH_TEST" \notin gl_state.caps
    /\ gl_state.depth_mask = FALSE

\* C16: after a bind_rasterization_state, whatever was bound before, the
\* polygon mode of the context is the one of the state bound and the
\* depth-bias toggle of that polygon mode is on iff the state's depth_bias
\* is set.
C16_BiasMatchesPolygonMode ==
    op.name = "bind_rasterization_state" =>
        LET toggle == CASE gl_state.polygon_mode = "POINT" -> "POLYGON_OFFSET_POINT"
                        [] gl_state.polygon_mode = "LINE" -> "POLYGON_OFFSET_LINE"
                        [] gl_state.polygon_mode = "FILL" -> "POLYGON_OFFSET_FILL"
        IN  /\ gl_state.polygon_mode = GLPolygonMode[op.args.state.polygon_mode]
            /\ (toggle \in gl_state.caps) <=> op.args.state.depth_bias

\* Lines without depth bias are bound while the bias toggle of filled
\* polygons is still on from an earlier bind.
C16_Witness ==
    /\ op.name = "bind_rasterization_state"
    /\ op.args.state.polygon_mode = "Line"
    /\ ~op.args.state.depth_bias
    /\ gl_state.polygon_mode = "LINE"
    /\ "POLYGON_OFFSET_LINE" \notin gl_state.caps
    /\ "POLYGON_OFFSET_FILL" \in gl_state.caps

\* The stencil calls of the last operation for one face of the test.
StencilCallsFor(face) ==
    [fn \in {"StencilFuncSeparate", "StencilOpSeparate"} |->
        {calls[k].args : k \in {j \in 1..Len(calls) :
                                  calls[j].fn = fn /\ calls[j].args[1] = face}}]

\* C17: a bind_depth_stencil_state with stencil_test = true writes, for the
\* front face, the compare function, reference and compare mask and the
\* (fail, depth-fail, pass) operations of stencil_front, and for the back
\* face those of stencil_back, one call each, and they are the values of the
\* context afterwards; StencilFace::KEEP has the three operations Keep,
\* compare Always, a mask of all ones and reference 0.
C17_StencilFacesSeparate ==
    /\ KEEP = [fail |-> "Keep", pass |-> "Keep", depth_fail |-> "Keep",
               compare_op |-> "Always", compare_mask |-> 0..31, reference |-> 0]
    /\ (op.name = "bind_depth_stencil_state" /\ op.args.state.stencil_test) =>
           LET front == op.args.state.stencil_front
               back == op.args.state.stencil_back
           IN  /\ StencilCallsFor("FRONT")["StencilFuncSeparate"] =
                      {<<"FRONT", GLCompare[front.compare_op], front.reference,
                         front.compare_mask>>}
               /\ StencilCallsFor("FRONT")["StencilOpSeparate"] =
                      {<<"FRONT", GLStencilOp[front.fail], GLStencilOp[front.depth_fail],
                         GLStencilOp[front.pass]>>}
               /\ StencilCallsFor("BACK")["StencilFuncSeparate"] =
                      {<<"BACK", GLCompare[back.compare_op], back.reference,
                         back.compare_mask>>}
               /\ StencilCallsFor("BACK")["StencilOpSeparate"] =
                      {<<"BACK", GLStencilOp[back.fail], GLStencilOp[back.depth_fail],
                         GLStencilOp[back.pass]>>}
               /\ "STENCIL_TEST" \in gl_state.caps
               /\ gl_state.stencil_func =
                      [FRONT |-> StencilFunc(front), BACK |-> StencilFunc(back)]
               /\ gl_state.stencil_op =
                      [FRONT |-> StencilOps(front), BACK |-> StencilOps(back)]

\* An asymmetric pair: KEEP in front, another face behind.
C17_Witness ==
    /\ op.name = "bind_depth_stencil_state"
    /\ op.args.state.stencil_test
    /\ op.args.state.stencil_front = KEEP
    /\ op.args.state.stencil_back # KEEP
    /\ gl_state.stencil_op["FRONT"] = <<"KEEP", "KEEP", "KEEP">>
    /\ gl_state.stencil_op["BACK"] = <<"ZERO", "INCR", "REPLACE">>
    /\ gl_state.stencil_func["BACK"] = <<"EQUAL", 1, 0..MaxMaskBit>>

----------------------------------------------------------------------------
(* Properties of the format lookups (SpecFormat) *)

\* The channels a format names: one for each letter R, G, B, A, D, S of its
\* name that is followed by a bit width.
NamedChannels ==
    [format \in Format |->
        CASE format = "R8_UNORM" -> <<"R">>
          [] format = "R8G8_UNORM" -> <<"R", "G">>
          [] format = "R8G8B8_UNORM" -> <<"R", "G", "B">>
          [] format = "R8G8B8A8_UNORM" -> <<"R", "G", "B", "A">>
          [] format = "R16_UNORM" -> <<"R">>
          [] format = "R16G16_UNORM" -> <<"R", "G">>
          [] format = "R16G16B16_UNORM" -> <<"R", "G", "B">>
          [] format = "R16G16B16A16_UNORM" -> <<"R", "G", "B", "A">>
          [] format = "R8_SNORM" -> <<"R">>
          [] format = "R8G8_SNORM" -> <<"R", "G">>
          [] format = "R8G8B8_SNORM" -> <<"R", "G", "B">>
          [] format = "R8G8B8A8_SNORM" -> <<"R", "G", "B", "A">>
          [] format = "R16_SNORM" -> <<"R">>
          [] format = "R16G16_SNORM" -> <<"R", "G">>
          [] format = "R16G16B16_SNORM" -> <<"R", "G", "B">>
          [] format = "R16G16B16A16_SNORM" -> <<"R", "G", "B", "A">>
          [] format = "R16_SFLOAT" -> <<"R">>
          [] format = "R16G16_SFLOAT" -> <<"R", "G">>
          [] format = "R16G16B16_SFLOAT" -> <<"R", "G", "B">>
          [] format = "R16G16B16A16_SFLOAT" -> <<"R", "G", "B", "A">>
          [] format = "R32_SFLOAT" -> <<"R">>
          [] format = "R32G32_SFLOAT" -> <<"R", "G">>
          [] format = "R32G32B32_SFLOAT" -> <<"R", "G", "B">>
          [] format = "R32G32B32A32_SFLOAT" -> <<"R", "G", "B", "A">>
          [] format = "R8_INT" -> <<"R">>
          [] format = "R8G8_INT" -> <<"R", "G">>
          [] format = "R8G8B8_INT" -> <<"R", "G", "B">>
          [] format = "R8G8B8A8_INT" -> <<"R", "G", "B", "A">>
          [] format = "R16_INT" -> <<"R">>
          [] format = "R16G16_INT" -> <<"R", "G">>
          [] format = "R16G16B16_INT" -> <<"R", "G", "B">>
          [] format = "R16G16B16A16_INT" -> <<"R", "G", "B", "A">>
          [] format = "R32_INT" -> <<"R">>
          [] format = "R32G32_INT" -> <<"R", "G">>
          [] format = "R32G32B32_INT" -> <<"R", "G", "B">>
          [] format = "R32G32B32A32_INT" -> <<"R", "G", "B", "A">>
          [] format = "R8_UINT" -> <<"R">>
          [] format = "R8G8_UINT" -> <<"R", "G">>
          [] format = "R8G8B8_UINT" -> <<"R", "G", "B">>
          [] format = "R8G8B8A8_UINT" -> <<"R", "G", "B", "A">>
          [] format = "R16_UINT" -> <<"R">>
          [] format = "R16G16_UINT" -> <<"R", "G">>
          [] format = "R16G16B16_UINT" -> <<"R", "G", "B">>
          [] format = "R16G16B16A16_UINT" -> <<"R", "G", "B", "A">>
          [] format = "R32_UINT" -> <<"R">>
          [] format = "R32G32_UINT" -> <<"R", "G">>
          [] format = "R32G32B32_UINT" -> <<"R", "G", "B">>
          [] format = "R32G32B32A32_UINT" -> <<"R", "G", "B", "A">>
          [] format = "R8G8B8_SRGB" -> <<"R", "G", "B">>
          [] format = "R8G8B8A8_SRGB" -> <<"R", "G", "B", "A">>
          [] format = "D16_UNORM" -> <<"D">>
          [] format = "D24_UNORM" -> <<"D">>
          [] format = "D32_UNORM" -> <<"D">>
          [] format = "D32_SFLOAT" -> <<"D">>
          [] format = "S8_UINT" -> <<"S">>
          [] format = "D24_UNORM_S8_UINT" -> <<"D", "S">>
          [] format = "D32_SFLOAT_S8_UINT" -> <<"D", "S">>]

\* C18: base_format is defined on every Format and num_components on every
\* BaseFormat, with R=1, RG=2, RGB=3, RGBA=4, Depth=1, Stencil=1,
\* DepthStencil=2; and for every Format, format.base_format().num_components()
\* is the number of channels the format names.
C18_ComponentsMatchNames ==
    /\ op.name = "Format::base_format" => op.value \in BaseFormat
    /\ op.name = "BaseFormat::num_components" =>
           op.value = [R |-> 1, RG |-> 2, RGB |-> 3, RGBA |-> 4, Depth |-> 1,
                       Stencil |-> 1, DepthStencil |-> 2][op.args.base]
    /\ op.name = "Format::num_components" =>
           op.value = Len(NamedChannels[op.args.format])
    /\ op = Idle =>
           /\ \A format \in Format :
                  BaseFormat_num_components(base_format(format)) =
                      Len(NamedChannels[format])
           /\ {base_format(format) : format \in Format} = BaseFormat

\* The lookups of the sRGB format with alpha (4), of a depth-stencil format
\* (2) and of a depth-only format (1) have been made.
C18_Witness ==
    /\ op.name = "Format::num_components"
    /\ \/ op.args.format = "R8G8B8A8_SRGB" /\ op.value = 4
       \/ op.args.format = "D24_UNORM_S8_UINT" /\ op.value = 2
       \/ op.args.format = "D32_SFLOAT" /\ op.value = 1
    /\ Len(NamedChannels[op.args.format]) = op.value

----------------------------------------------------------------------------
(* Properties of the errors of creation (SpecTargets, SpecPrograms) *)

CreationOperations ==
    {"create_buffer", "create_buffer_from_host", "create_image", "create_image_view",
     "create_sampler", "create_vertex_array", "create_framebuffer", "create_renderbuffer"}

\* C19: when a call issued by a creation operation runs out of memory, the
\* operation returns OutOfMemory.  Every creation operation reads the error
\* flag after its first call, which clears it: a flag that is set when the
\* operation has returned was set by a later call of the same operation, the
\* storage call among them.
C19_OutOfMemoryIsReturned ==
    (op.name \in CreationOperations /\ gl_error = OUT_OF_MEMORY) =>
        op.status = "OutOfMemory"

\* C20: when the shader does not compile or the program does not link, the
\* operation does not return the success value: a shader that create_shader
\* returns as Ok is compiled, a pipeline that create_graphics_pipeline or
\* create_compute_pipeline returns as Ok is linked.
C20_FailureIsAnError ==
    /\ (op.name = "create_shader" /\ op.status = "Ok") => gl_shaders[op.value].compiled
    /\ (op.name \in {"create_graphics_pipeline", "create_compute_pipeline"}
           /\ op.status = "Ok") => gl_programs[op.value].linked

----------------------------------------------------------------------------
(* Properties of pipelines (SpecPrograms, SpecPipelineUse) *)

\* The stages of the shaders attached when LinkProgram is called by the last
\* operation.
AttachedStages ==
    {gl_shaders[calls[k].args[2]].stage :
        k \in {j \in 1..Len(calls) : calls[j].fn = "AttachShader"}}

\* C21: in a pipeline that create_graphics_pipeline links, the shaders
\* attached at link time never include a mesh or task shader together with a
\* vertex, tessellation or geometry shader.
C21_MeshExcludesVertex ==
    (op.name = "create_graphics_pipeline"
       /\ \E k \in 1..Len(calls) : calls[k].fn = "LinkProgram") =>
        ~ /\ AttachedStages \cap {"MESH_SHADER_NV", "TASK_SHADER_NV"} # {}
          /\ AttachedStages \cap {"VERTEX_SHADER", "TESS_CONTROL_SHADER",
                                  "TESS_EVALUATION_SHADER", "GEOMETRY_SHADER"} # {}

\* C22 as stated: once a pipeline is linked, no operation but its deletion
\* changes any state its program object holds, the uniform values included.
C22_PipelineImmutable ==
    [][\A p \in pipelines \cap pipelines' :
           /\ gl_programs'[p] = gl_programs[p]
           /\ gl_uniforms'[p] = gl_uniforms[p]]_vars

\* C22, amended: while the caller holds a pipeline no operation changes its
\* linked stages, its link status or its info log; its uniform values are
\* changed by bind_uniform_constants on that pipeline only, and only at the
\* locations first .. first + number of constants - 1.
C22_OnlyUniformConstantsChange ==
    [][\A p \in pipelines \cap pipelines' :
           /\ gl_programs'[p] = gl_programs[p]
           /\ \A location \in UniformLocations :
                  gl_uniforms'[p][location] # gl_uniforms[p][location] =>
                      /\ op'.name = "bind_uniform_constants"
                      /\ op'.args.pipeline = p
                      /\ location - op'.args.first \in 0..(Len(op'.args.constants) - 1)]_vars

\* bind_uniform_constants has set a uniform value of a linked pipeline.
C22_Witness ==
    /\ op.name = "bind_uniform_constants"
    /\ op.args.pipeline \in pipelines
    /\ gl_programs[op.args.pipeline].linked
    /\ gl_uniforms[op.args.pipeline] # NoUniforms

----------------------------------------------------------------------------
(* Properties of views, mappings and attachments *)

\* The multisampled texture targets.
Multisampled(target) ==
    target \in {"TEXTURE_2D_MULTISAMPLE", "TEXTURE_2D_MULTISAMPLE_ARRAY"}

C24_MapBufferWholeElements ==
    op.name = "map_buffer" =>
        LET len == op.args.range[2] - op.args.range[1]
            stride == op.args.stride
        IN  /\ op.status \in {"Ok", "Panic"}
            /\ op.status = "Ok" <=> (stride # 0 /\ len % stride = 0)
            /\ op.status = "Ok" =>
                   /\ op.value * stride = len
                   /\ Len(calls) = 1
                   /\ calls[1].fn = "MapNamedBufferRange"
                   /\ calls[1].args[2] = op.args.range[1]
                   /\ calls[1].args[3] = len
            /\ op.status = "Panic" => calls = <<>>

\* A range of several bytes has been mapped as elements of more than one byte.
C24_Witness ==
    /\ op.name = "map_buffer"
    /\ op.status = "Ok"
    /\ op.args.stride > 1
    /\ op.value >= 1

\* The attachment points of the framebuffer of the last operation that hold
\* an object, and the points its list names.
BoundPoints == {a.point : a \in gl_framebuffers[op.args.framebuffer].attachments}
ListedPoints ==
    UNION {Points(Attachment_target(op.args.attachments[i][1])) :
               i \in 1..Len(op.args.attachments)}

\* C25: after bind_attachments(framebuffer, attachments) the bound attachment
\* points of the framebuffer are exactly the points of the list: a point bound
\* before and absent from the list holds nothing any more.
C25_ExactlyListed ==
    (op.name = "bind_attachments" /\ op.status = "Ok") => BoundPoints = ListedPoints

----------------------------------------------------------------------------
(* Properties of the error flag and of failed creations *)

\* C26: a creation returns Err(OutOfMemory) only if one of its own calls ran
\* out of memory; an error left pending by an earlier operation is not
\* reported by a later creation whose calls succeed.  The creations of
\* framebuffers, renderbuffers and samplers read the flag after their first
\* call only, and a creating call that runs out of memory creates nothing:
\* when they return the error the context holds no new object.
C26_OutOfMemoryIsOwn ==
    [][(op'.name \in {"create_framebuffer", "create_renderbuffer", "create_sampler"}
          /\ op'.status = "OutOfMemory") =>
           /\ gl_framebuffers' = gl_framebuffers
           /\ gl_renderbuffers' = gl_renderbuffers
           /\ gl_samplers' = gl_samplers]_vars

\* C27: when a creation returns an error or aborts, no object created by that
\* call remains allocated: the names the context has handed out are those it
\* had handed out before the call.
C27_FailureLeavesNothing ==
    [][(op'.name \in {"create_image", "create_image_and_view", "create_buffer",
                       "create_buffer_from_host"}
          /\ op'.status # "Ok") =>
           /\ Unused(textures') = Unused(textures)
           /\ Unused(gl_buffers') = Unused(gl_buffers)]_vars

----------------------------------------------------------------------------
(* Properties of transfers, blits and barriers *)

\* The binding of PIXEL_UNPACK_BUFFER when call k of the step is issued.
UnpackBindingAt(k) == PixelUnpackBuffer(gl_pixel_unpack_buffer, SubSeq(calls', 1, k - 1))

Rectangle(region) == <<region.x, region.y, region.x + region.w, region.y + region.h>>

\* C29: blit passes for the source and for the destination region the
\* rectangle with the corners (x, y) and (x + w, y + h).
C29_BlitRectangles ==
    op.name = "blit" =>
        /\ SubSeq(calls[1].args, 3, 6) = Rectangle(op.args.src_region)
        /\ SubSeq(calls[1].args, 7, 10) = Rectangle(op.args.dst_region)

\* C30: memory_barrier(Barrier::ALL) forwards the all-barrier-bits value, all
\* 32 bits set; for other flags the bits forwarded are the caller's flags
\* without INPUT_ATTACHMENT_READ, which becomes a texture barrier issued
\* before.
C30_AllBitsForwarded ==
    op.name = "memory_barrier" =>
        LET forwarded == IF op.args.flags = Barrier.ALL THEN Bits32
                         ELSE op.args.flags \ Barrier.INPUT_ATTACHMENT_READ
        IN  forwarded # {} =>
                /\ calls # <<>>
                /\ calls[Len(calls)] = Call("MemoryBarrier", <<forwarded>>)

====
